---------------------------- MODULE Spec2Model ----------------------------
(***************************************************************************)
(* A model of alsam-xml.js: the decoder LoadXML and the encoder ExportXML  *)
(* of the ALSAM XML scan-layer format.                                     *)
(*                                                                         *)
(*  - src/src/index.ts, src/src/validation.ts: the TypeScript             *)
(*    implementation (LoadXML, ExportXML and the field accessors).        *)
(*  - src/alsam-xml.js: the published JavaScript module (suffix _js).      *)
(*                                                                         *)
(* Text is a sequence of one-character strings, so that the regular       *)
(* expressions of the code inspect it character by character.  Numbers    *)
(* are fixed-point: the integer n stands for n / Scale.  A document is    *)
(* the element tree DOMParser builds; white-space text nodes between      *)
(* elements are left out (the code reads the text of leaf elements only). *)
(***************************************************************************)
EXTENDS Integers, Sequences, FiniteSets, TLC

(***************************************************************************)
(* Bounds of the model.                                                    *)
(***************************************************************************)
\* number of fractional decimal digits a number of the model carries
FracDigits == 2
\* largest number of Segment blocks of a generated Path
MaxSegments == 2

RECURSIVE Pow10(_)
Pow10(k) == IF k = 0 THEN 1 ELSE 10 * Pow10(k - 1)

Scale == Pow10(FracDigits)

(***************************************************************************)
(* Characters and text.                                                    *)
(***************************************************************************)
Digits == <<"0", "1", "2", "3", "4", "5", "6", "7", "8", "9">>

IsDigit(c) == \E i \in 1..10 : Digits[i] = c

DigitVal(c) == (CHOOSE i \in 1..10 : Digits[i] = c) - 1

AllDigits(s) == \A i \in 1..Len(s) : IsDigit(s[i])

Drop(s, k) == SubSeq(s, k + 1, Len(s))

Take(s, k) == SubSeq(s, 1, IF k < Len(s) THEN k ELSE Len(s))

RECURSIVE DigitsToNat(_)
DigitsToNat(s) ==
  IF s = <<>> THEN 0
  ELSE 10 * DigitsToNat(Take(s, Len(s) - 1)) + DigitVal(s[Len(s)])

RECURSIVE NatToDigits(_)
NatToDigits(n) ==
  IF n < 10 THEN <<Digits[n + 1]>>
  ELSE NatToDigits(n \div 10) \o <<Digits[(n % 10) + 1]>>

\* the texts of the documents, and the string literals the code compares
\* them with
T ==
  [date |-> <<"2", "0", "2", "0", "-", "0", "3", "-", "2", "3">>,
   n0 |-> <<"0">>,
   n1 |-> <<"1">>,
   n2 |-> <<"2">>,
   n3 |-> <<"3">>,
   n900 |-> <<"9", "0", "0">>,
   half |-> <<"0", ".", "5">>,
   n1_5 |-> <<"1", ".", "5">>,
   minus1 |-> <<"-", "1">>,
   minus2 |-> <<"-", "2">>,
   v1 |-> <<"v", "1">>,
   s0 |-> <<"s", "0">>,
   s1 |-> <<"s", "1">>,
   t0 |-> <<"t", "0">>,
   Delay |-> <<"D", "e", "l", "a", "y">>,
   Auto |-> <<"A", "u", "t", "o">>,
   Independent |-> <<"I", "n", "d", "e", "p", "e", "n", "d", "e", "n", "t">>,
   FollowMe |-> <<"F", "o", "l", "l", "o", "w", "M", "e">>,
   hatch |-> <<"h", "a", "t", "c", "h">>,
   contour |-> <<"c", "o", "n", "t", "o", "u", "r">>,
   sequential |-> <<"s", "e", "q", "u", "e", "n", "t", "i", "a", "l">>,
   concurrent |-> <<"c", "o", "n", "c", "u", "r", "r", "e", "n", "t">>]

(***************************************************************************)
(* JavaScript values: undefined, null, NaN, a number, a string.            *)
(***************************************************************************)
Undefined == [t |-> "undefined", n |-> 0, s |-> <<>>]

Null == [t |-> "null", n |-> 0, s |-> <<>>]

NaN == [t |-> "NaN", n |-> 0, s |-> <<>>]

Num(n) == [t |-> "number", n |-> n, s |-> <<>>]

Str(s) == [t |-> "string", n |-> 0, s |-> s]

\* an integer, as a number of the model
Int2Num(i) == Num(i * Scale)

\* v != null (loose): neither null nor undefined
NotNullish(v) == v.t \notin {"undefined", "null"}

\* the truthiness of a value: !v is ~Truthy(v)
Truthy(v) ==
  CASE v.t = "undefined" -> FALSE
    [] v.t = "null" -> FALSE
    [] v.t = "NaN" -> FALSE
    [] v.t = "number" -> v.n # 0
    [] OTHER -> v.s # <<>>

\* a === b
StrictEq(a, b) == a.t # "NaN" /\ a = b

(***************************************************************************)
(* Number <-> text: what a template literal `${n}` writes, and what        *)
(* ToNumber, parseFloat and parseInt read.                                 *)
(***************************************************************************)
RECURSIVE StripTrailingZeros(_)
StripTrailingZeros(s) ==
  IF s # <<>> /\ s[Len(s)] = "0" THEN StripTrailingZeros(Take(s, Len(s) - 1))
  ELSE s

RECURSIVE PadLeft(_, _)
PadLeft(s, k) == IF Len(s) >= k THEN s ELSE PadLeft(<<"0">> \o s, k)

RECURSIVE PadRight(_, _)
PadRight(s, k) == IF Len(s) >= k THEN s ELSE PadRight(s \o <<"0">>, k)

\* Number.prototype.toString of n / Scale
NumberToString(n) ==
  LET a == IF n < 0 THEN -n ELSE n
      frac == StripTrailingZeros(PadLeft(NatToDigits(a % Scale), FracDigits))
  IN (IF n < 0 THEN <<"-">> ELSE <<>>)
       \o NatToDigits(a \div Scale)
       \o (IF frac = <<>> THEN <<>> ELSE <<".">> \o frac)

\* the length of the longest prefix of s made of digits
RECURSIVE DigitPrefixLen(_)
DigitPrefixLen(s) ==
  IF s # <<>> /\ IsDigit(s[1]) THEN 1 + DigitPrefixLen(Drop(s, 1)) ELSE 0

\* the value of the fraction digits f, cut to the precision of the model
FracVal(f) == DigitsToNat(PadRight(Take(f, FracDigits), FracDigits))

\* parseFloat: an optional sign, then the longest prefix digits[.digits]
parseFloat(s) ==
  LET neg == s # <<>> /\ s[1] = "-"
      r == IF s # <<>> /\ s[1] \in {"+", "-"} THEN Drop(s, 1) ELSE s
      k == DigitPrefixLen(r)
      rest == Drop(r, k)
      f == IF rest # <<>> /\ rest[1] = "."
           THEN Take(Drop(rest, 1), DigitPrefixLen(Drop(rest, 1)))
           ELSE <<>>
      mag == DigitsToNat(Take(r, k)) * Scale + FracVal(f)
  IN IF k = 0 /\ f = <<>> THEN NaN ELSE Num(IF neg THEN -mag ELSE mag)

\* parseInt: an optional sign, then the longest prefix of digits
parseInt(s) ==
  LET neg == s # <<>> /\ s[1] = "-"
      r == IF s # <<>> /\ s[1] \in {"+", "-"} THEN Drop(s, 1) ELSE s
      k == DigitPrefixLen(r)
      mag == DigitsToNat(Take(r, k)) * Scale
  IN IF k = 0 THEN NaN ELSE Num(IF neg THEN -mag ELSE mag)

\* ToNumber of a string: the whole text must be a numeric literal
StringToNumber(s) ==
  LET r == IF s # <<>> /\ s[1] \in {"+", "-"} THEN Drop(s, 1) ELSE s
      k == DigitPrefixLen(r)
      rest == Drop(r, k)
      whole == \/ k > 0 /\ rest = <<>>
               \/ /\ rest # <<>> /\ rest[1] = "."
                  /\ AllDigits(Drop(rest, 1))
                  /\ k + Len(rest) > 1
  IN IF s = <<>> THEN Num(0) ELSE IF whole THEN parseFloat(s) ELSE NaN

\* ToNumber of a value
ToNumber(v) ==
  CASE v.t = "number" -> v
    [] v.t = "string" -> StringToNumber(v.s)
    [] v.t = "null" -> Num(0)
    [] OTHER -> NaN

\* the relational operators of JavaScript against a number of the model
Gt(v, n) == LET x == ToNumber(v) IN x.t = "number" /\ x.n > n

Ge(v, n) == LET x == ToNumber(v) IN x.t = "number" /\ x.n >= n

Lt(v, n) == LET x == ToNumber(v) IN x.t = "number" /\ x.n < n

Le(v, n) == LET x == ToNumber(v) IN x.t = "number" /\ x.n <= n

\* `${v}`
TemplateString(v) ==
  CASE v.t = "number" -> NumberToString(v.n)
    [] v.t = "string" -> v.s
    [] v.t = "null" -> <<"n", "u", "l", "l">>
    [] v.t = "NaN" -> <<"N", "a", "N">>
    [] OTHER -> <<"u", "n", "d", "e", "f", "i", "n", "e", "d">>

(***************************************************************************)
(* The document tree.  An element is [tag, text, kids]: text is the text   *)
(* of a leaf element, kids the child elements in document order.          *)
(***************************************************************************)
El(tag, kids) == [tag |-> tag, text |-> <<>>, kids |-> kids]

Leaf(tag, text) == [tag |-> tag, text |-> text, kids |-> <<>>]

\* the Document node DOMParser returns for the root element root
Document(root) == El("#document", <<root>>)

\* what `collection[0]` is when the collection is empty
NoNode == [tag |-> "#undefined", text |-> <<>>, kids |-> <<>>]

RECURSIVE Descendants(_)
RECURSIVE DescendantsOfKids(_, _)
\* the descendants of node, in document order (node itself left out)
Descendants(node) == DescendantsOfKids(node.kids, 1)
DescendantsOfKids(kids, i) ==
  IF i > Len(kids) THEN <<>>
  ELSE <<kids[i]>> \o Descendants(kids[i]) \o DescendantsOfKids(kids, i + 1)

\* Element.getElementsByTagName: every descendant with that tag, in
\* document order, at any depth
getElementsByTagName(xmlNode, tagName) ==
  LET Has(n) == n.tag = tagName IN SelectSeq(Descendants(xmlNode), Has)

\* collection[0]
First(collection) == IF collection = <<>> THEN NoNode ELSE collection[1]

RECURSIVE textContent(_)
RECURSIVE textContentOfKids(_, _)
\* Node.textContent: the text of the element and of its descendants
textContent(node) == node.text \o textContentOfKids(node.kids, 1)
textContentOfKids(kids, i) ==
  IF i > Len(kids) THEN <<>>
  ELSE textContent(kids[i]) \o textContentOfKids(kids, i + 1)

(***************************************************************************)
(* Outcomes: a call returns a value or throws.                             *)
(***************************************************************************)
NoErr ==
  [kind |-> "none", reason |-> "none", field |-> "none", stage |-> "none",
   at |-> <<>>]

Return(v) == [ok |-> TRUE, val |-> v, err |-> NoErr]

Throw(kind, reason, field) ==
  [ok |-> FALSE, val |-> Undefined,
   err |-> [kind |-> kind, reason |-> reason, field |-> field,
            stage |-> "none", at |-> <<>>]]

\* assert(cond, message): an AssertionError when cond is false
AssertionError(reason, field) == Throw("AssertionError", reason, field)

\* a property read or a method call on undefined
TypeError(field) == Throw("TypeError", "UndefinedNode", field)

(***************************************************************************)
(* src/src/validation.ts                                                   *)
(***************************************************************************)
\* /^[0-9]*$/
isIntegerRegex(value) == AllDigits(value)

\* the float pattern with a digit required before the decimal point
isFloatRegex_digitFirst(value) ==
  LET r == IF value # <<>> /\ value[1] \in {"+", "-"} THEN Drop(value, 1)
           ELSE value
  IN \/ r # <<>> /\ AllDigits(r)
     \/ \E k \in 2..Len(r) :
          /\ r[k] = "."
          /\ AllDigits(Take(r, k - 1))
          /\ Drop(r, k) # <<>>
          /\ AllDigits(Drop(r, k))

\* /^[+-]?([0-9]*[.])?[0-9]+$/
isFloatRegex(value) ==
  LET r == IF value # <<>> /\ value[1] \in {"+", "-"} THEN Drop(value, 1)
           ELSE value
  IN \/ r # <<>> /\ AllDigits(r)
     \/ \E k \in 1..Len(r) :
          /\ r[k] = "."
          /\ AllDigits(Take(r, k - 1))
          /\ Drop(r, k) # <<>>
          /\ AllDigits(Drop(r, k))

\* validate(nodeName, value, type): TRUE when no assertion fails
validate(value, type) ==
  /\ type = "float" => isFloatRegex(value)
  /\ type = "integer" => isIntegerRegex(value)

\* cast(value, type)
cast(value, type) ==
  CASE type = "float" -> parseFloat(value)
    [] type = "integer" -> parseInt(value)
    [] OTHER -> Undefined

\* `const x = e; body`: { body : x \in {e} } is body with x bound to the
\* value of e, and The takes it out of that one-element set
The(S) == CHOOSE e \in S : TRUE

\* getOptionalValue that takes a text denoting zero for no value
getOptionalValue_zeroAbsent(xmlNode, tagName, type) ==
  IF xmlNode = NoNode THEN TypeError(tagName)
  ELSE The({ IF node # NoNode /\ textContent(node) # <<>>
             THEN IF ~validate(textContent(node), type)
                  THEN AssertionError("TypeMismatch", tagName)
                  ELSE IF Truthy(ToNumber(Str(textContent(node))))
                  THEN Return(Str(textContent(node)))
                  ELSE Return(Undefined)
             ELSE Return(Undefined)
             : node \in {First(getElementsByTagName(xmlNode, tagName))} })

\* getOptionalValue, Float/Int/String by type.  The text is validated and
\* cast, and node.textContent itself is returned (the result of cast is
\* dropped)
getOptionalValue(xmlNode, tagName, type) ==
  IF xmlNode = NoNode THEN TypeError(tagName)
  ELSE The({ IF node # NoNode /\ textContent(node) # <<>>
             THEN IF validate(textContent(node), type)
                  THEN Return(Str(textContent(node)))
                  ELSE AssertionError("TypeMismatch", tagName)
             ELSE Return(Undefined)
             : node \in {First(getElementsByTagName(xmlNode, tagName))} })

\* getMandatoryValue, Float/Int/String by type
getMandatoryValue(xmlNode, tagName, type) ==
  IF xmlNode = NoNode THEN TypeError(tagName)
  ELSE The({ IF node = NoNode
             THEN AssertionError("MissingMandatoryField", tagName)
             ELSE IF textContent(node) = <<>>
             THEN AssertionError("EmptyField", tagName)
             ELSE IF ~validate(textContent(node), type)
             THEN AssertionError("TypeMismatch", tagName)
             ELSE Return(Str(textContent(node)))
             : node \in {First(getElementsByTagName(xmlNode, tagName))} })

\* one accessor call of an object literal: <<property, tag, type, mandatory>>
ReadField(xmlNode, f) ==
  IF f[4] THEN getMandatoryValue(xmlNode, f[2], f[3])
  ELSE getOptionalValue(xmlNode, f[2], f[3])

\* the index of the first of outcomes that is a throw
FirstThrow(outcomes) ==
  CHOOSE i \in 1..Len(outcomes) :
    ~outcomes[i].ok /\ \A j \in 1..(i - 1) : outcomes[j].ok

\* the object literal of fields, given the outcomes of its accessor calls in
\* source order: the object, or what the first failing call throws
ObjectOf(fields, reads) ==
  IF \E i \in 1..Len(reads) : ~reads[i].ok THEN reads[FirstThrow(reads)]
  ELSE Return([name \in {fields[i][1] : i \in 1..Len(fields)} |->
                 reads[CHOOSE i \in 1..Len(fields) : fields[i][1] = name].val])

\* an object literal whose properties are accessor calls on xmlNode
ReadObject(xmlNode, fields) ==
  ObjectOf(fields, [i \in 1..Len(fields) |-> ReadField(xmlNode, fields[i])])

\* the loop `for (x of items) { output.push(Body(x)) }`, given the outcomes
\* of its iterations: the list of results, or what the first failing
\* iteration throws (at records its index).  Where output is a Set, its
\* entries are fresh objects, no two the same, so the Set holds one entry
\* per iteration, in insertion order
Collect(outcomes) ==
  IF \E i \in 1..Len(outcomes) : ~outcomes[i].ok
  THEN [outcomes[FirstThrow(outcomes)] EXCEPT
          !.err.at = <<FirstThrow(outcomes)>> \o @]
  ELSE Return([i \in 1..Len(outcomes) |-> outcomes[i].val])

\* the outcome res, with the function that threw recorded
InStage(res, stage) ==
  IF res.ok THEN res ELSE [res EXCEPT !.err.stage = stage]

(***************************************************************************)
(* src/src/index.ts: the decoder.                                          *)
(***************************************************************************)
\* /^\d{4}-\d{2}-\d{2}$/, as the classes of its positions
DatePattern == <<"d", "d", "d", "d", "-", "d", "d", "-", "d", "d">>

\* the pattern without its end anchor: /^\d{4}-\d{2}-\d{2}/
dateRegex_unanchored(value) ==
  /\ Len(value) >= Len(DatePattern)
  /\ \A i \in 1..Len(DatePattern) :
       IF DatePattern[i] = "d" THEN IsDigit(value[i])
       ELSE value[i] = DatePattern[i]

dateRegex(value) ==
  /\ Len(value) = Len(DatePattern)
  /\ \A i \in 1..Len(DatePattern) :
       IF DatePattern[i] = "d" THEN IsDigit(value[i])
       ELSE value[i] = DatePattern[i]

HeaderFields ==
  << <<"americaMakesSchemaVersion", "AmericaMakesSchemaVersion", "string", TRUE>>,
     <<"layerNum", "LayerNum", "integer", FALSE>>,
     <<"layerThickness", "LayerThickness", "float", TRUE>>,
     <<"absoluteHeight", "AbsoluteHeight", "float", FALSE>>,
     <<"dosingFactor", "DosingFactor", "float", FALSE>>,
     <<"buildDescription", "BuildDescription", "string", FALSE>> >>

getHeader(xmlDoc) ==
  The({ IF ~output.ok THEN output
        ELSE IF ~dateRegex(TemplateString(output.val.americaMakesSchemaVersion))
        THEN AssertionError("MalformedDate", "AmericaMakesSchemaVersion")
        ELSE IF ~Gt(output.val.layerThickness, 0)
        THEN AssertionError("OutOfRange", "LayerThickness")
        ELSE IF ~(\/ ~Truthy(output.val.absoluteHeight)
                  \/ Gt(output.val.absoluteHeight, 0))
        THEN AssertionError("OutOfRange", "AbsoluteHeight")
        ELSE IF ~(\/ ~Truthy(output.val.dosingFactor)
                  \/ Gt(output.val.dosingFactor, 0))
        THEN AssertionError("OutOfRange", "DosingFactor")
        ELSE output
        : output \in {ReadObject(xmlDoc, HeaderFields)} })

\* the assertion on any non-empty mode
ModeAllowed_any(mode) == Truthy(mode)

\* profile.mode === "Delay" || profile.mode === "Auto"
ModeAllowed(mode) == StrictEq(mode, Str(T.Delay)) \/ StrictEq(mode, Str(T.Auto))

\* the body of the loop of getVelocityProfiles
getVelocityProfile(style) ==
  The({ IF ~profile.ok THEN profile
        ELSE IF ~Gt(profile.val.velocity, 0)
        THEN AssertionError("OutOfRange", "Velocity")
        ELSE IF ~ModeAllowed(profile.val.mode)
        THEN AssertionError("InvalidEnumValue", "Mode")
        ELSE profile
        : profile \in {ReadObject(style,
            << <<"ID", "ID", "string", TRUE>>,
               <<"velocity", "Velocity", "float", TRUE>>,
               <<"mode", "Mode", "string", TRUE>>,
               <<"laserOnDelay", "LaserOnDelay", "float", TRUE>>,
               <<"laserOffDelay", "LaserOffDelay", "float", TRUE>>,
               <<"jumpDelay", "JumpDelay", "float", TRUE>>,
               <<"markDelay", "MarkDelay", "float", TRUE>>,
               <<"polygonDelay", "PolygonDelay", "float", TRUE>> >>)} })

getVelocityProfiles(xmlDoc) ==
  The({ Collect([i \in 1..Len(velocityProfiles) |->
                   getVelocityProfile(velocityProfiles[i])])
        : velocityProfiles \in {getElementsByTagName(xmlDoc, "VelocityProfile")} })

WobbleFields ==
  << <<"on", "On", "integer", TRUE>>,
     <<"freq", "Freq", "integer", TRUE>>,
     <<"shape", "Shape", "integer", TRUE>>,
     <<"transAmp", "TransAmp", "float", TRUE>>,
     <<"longAmp", "LongAmp", "float", TRUE>> >>

\* wobble.on === 0 || wobble.on === 1
WobbleOnAllowed(on) == StrictEq(on, Int2Num(0)) \/ StrictEq(on, Int2Num(1))

\* wobble.shape >= -1 && wobble.shape <= -1
WobbleShapeAllowed(shape) == Ge(shape, -1 * Scale) /\ Le(shape, -1 * Scale)

\* the block `if (wobbleCollection.length > 0) { const wobble = ...; assert... }`
\* on wobbleElem = wobbleCollection[0]
getWobble(wobbleElem) ==
  The({ IF ~wobble.ok THEN wobble
        ELSE IF ~WobbleOnAllowed(wobble.val.on)
        THEN AssertionError("InvalidEnumValue", "On")
        ELSE IF ~WobbleShapeAllowed(wobble.val.shape)
        THEN AssertionError("InvalidEnumValue", "Shape")
        ELSE wobble
        : wobble \in {ReadObject(wobbleElem, WobbleFields)} })

\* the body of the loop over travelersXML.  The `wobble` its Traveler
\* literal reads is the outer `let wobble = null`: the object built inside
\* the if block (inner) is a const of the same name that shadows it and is
\* never assigned to it
getTraveler(travelerXML) ==
  The({ IF ~inner.ok THEN inner
        ELSE IF ~traveler.ok THEN traveler
        ELSE IF ~(~Truthy(traveler.val.power) \/ Ge(traveler.val.power, 0))
        THEN AssertionError("OutOfRange", "Power")
        ELSE Return(traveler.val @@ [wobble |-> Null])
        : inner \in
            {IF Len(getElementsByTagName(travelerXML, "Wobble")) > 0
             THEN getWobble(getElementsByTagName(travelerXML, "Wobble")[1])
             ELSE Return(Null)},
          traveler \in {ReadObject(travelerXML,
            << <<"ID", "ID", "integer", TRUE>>,
               <<"syncDelay", "SyncDelay", "integer", FALSE>>,
               <<"power", "Power", "float", FALSE>>,
               <<"spotSize", "SpotSize", "float", FALSE>> >>)} })

\* LaserMode read as a mandatory field whatever the travelers
LaserModeOf_always(style, travelers) ==
  getMandatoryValue(style, "LaserMode", "string")

\* travelers.length !== 0 ? getOptionalValueString(style, "LaserMode") : undefined
\* (travelers is the outcome of the loop over travelersXML)
LaserModeOf(style, travelers) ==
  IF travelers.ok /\ Len(travelers.val) # 0
  THEN getOptionalValue(style, "LaserMode", "string")
  ELSE Return(Undefined)

\* !laserMode || laserMode === "Independent" || laserMode === "FollowMe"
LaserModeAllowed(laserMode) ==
  \/ ~Truthy(laserMode)
  \/ StrictEq(laserMode, Str(T.Independent))
  \/ StrictEq(laserMode, Str(T.FollowMe))

\* the body of the loop of getSegmentStyles
getSegmentStyle(style) ==
  The({ IF ~travelers.ok THEN travelers
        ELSE IF ~ids.ok THEN ids
        ELSE IF ~LaserModeOf(style, travelers).ok
        THEN LaserModeOf(style, travelers)
        ELSE IF ~LaserModeAllowed(LaserModeOf(style, travelers).val)
        THEN AssertionError("InvalidEnumValue", "LaserMode")
        ELSE Return(ids.val @@ [laserMode |-> LaserModeOf(style, travelers).val,
                                travelers |-> travelers.val])
        : travelers \in
            {Collect([i \in 1..Len(getElementsByTagName(style, "Traveler")) |->
                        getTraveler(getElementsByTagName(style, "Traveler")[i])])},
          ids \in {ReadObject(style,
            << <<"ID", "ID", "string", TRUE>>,
               <<"velocityProfileID", "VelocityProfileID", "string", TRUE>> >>)} })

getSegmentStyles(xmlDoc) ==
  The({ Collect([i \in 1..Len(segmentStyles) |->
                   getSegmentStyle(segmentStyles[i])])
        : segmentStyles \in {getElementsByTagName(xmlDoc, "SegmentStyle")} })

PathFields ==
  << <<"type", "Type", "string", TRUE>>,
     <<"tag", "Tag", "string", TRUE>>,
     <<"numSegments", "NumSegments", "integer", TRUE>>,
     <<"skyWritingMode", "SkyWritingMode", "integer", TRUE>> >>

\* the assertion on any non-empty type
PathTypeAllowed_any(type) == Truthy(type)

\* path.type === "hatch" || path.type === "contour"
PathTypeAllowed(type) ==
  StrictEq(type, Str(T.hatch)) \/ StrictEq(type, Str(T.contour))

\* path.skyWritingMode >= 0 && path.skyWritingMode <= 3
SkyWritingModeAllowed(mode) == Ge(mode, 0) /\ Le(mode, 3 * Scale)

SegmentFields ==
  << <<"x2", "X", "float", TRUE>>,
     <<"y2", "Y", "float", TRUE>>,
     <<"segmentID", "SegmentID", "string", FALSE>>,
     <<"segStyle", "SegStyle", "string", TRUE>> >>

\* the Segment literal: x1 and y1 are the cursor, the rest is read
getSegment(segmentXML, lastX, lastY) ==
  The({ IF ~read.ok THEN read
        ELSE Return(read.val @@ [x1 |-> lastX, y1 |-> lastY])
        : read \in {ReadObject(segmentXML, SegmentFields)} })

RECURSIVE getSegments_stale(_, _, _, _, _)
\* the loop with the cursor left where it was (lastX, lastY never assigned)
getSegments_stale(segmentsXML, i, lastX, lastY, segments) ==
  IF i > Len(segmentsXML) THEN Return(segments)
  ELSE The({ IF ~segment.ok THEN [segment EXCEPT !.err.at = <<i>> \o @]
             ELSE getSegments_stale(segmentsXML, i + 1, lastX, lastY,
                                    Append(segments, segment.val))
             : segment \in {getSegment(segmentsXML[i], lastX, lastY)} })

RECURSIVE getSegments(_, _, _, _, _)
\* the loop over segmentsXML from index i on: segments is path.segments so
\* far, (lastX, lastY) the cursor.  An iteration evaluates its Segment
\* literal, pushes it, then lastX = segment.x2, lastY = segment.y2
getSegments(segmentsXML, i, lastX, lastY, segments) ==
  IF i > Len(segmentsXML) THEN Return(segments)
  ELSE The({ IF ~segment.ok THEN [segment EXCEPT !.err.at = <<i>> \o @]
             ELSE getSegments(segmentsXML, i + 1, segment.val.x2,
                              segment.val.y2, Append(segments, segment.val))
             : segment \in {getSegment(segmentsXML[i], lastX, lastY)} })

\* the path with its segments, at the end of the loop body
getPathWith(path, segments) ==
  IF ~segments.ok THEN segments
  ELSE Return(path.val @@ [segments |-> segments.val])

\* the body of the loop over pathsXML; lastX and lastY are the Start reads,
\* on start = pathXML.getElementsByTagName("Start")[0]
getPath(pathXML) ==
  The({ IF ~path.ok THEN path
        ELSE IF ~PathTypeAllowed(path.val.type)
        THEN AssertionError("InvalidEnumValue", "Type")
        ELSE IF ~SkyWritingModeAllowed(path.val.skyWritingMode)
        THEN AssertionError("InvalidEnumValue", "SkyWritingMode")
        ELSE IF ~lastX.ok THEN lastX
        ELSE IF ~lastY.ok THEN lastY
        ELSE getPathWith(path,
               getSegments(getElementsByTagName(pathXML, "Segment"), 1,
                           lastX.val, lastY.val, <<>>))
        : path \in {ReadObject(pathXML, PathFields)},
          lastX \in {getMandatoryValue(
                       First(getElementsByTagName(pathXML, "Start")),
                       "X", "float")},
          lastY \in {getMandatoryValue(
                       First(getElementsByTagName(pathXML, "Start")),
                       "Y", "float")} })

TrajectoryFields ==
  << <<"trajectoryID", "TrajectoryID", "string", TRUE>>,
     <<"pathProcessingMode", "PathProcessingMode", "string", TRUE>> >>

PathProcessingModeAllowed(mode) ==
  StrictEq(mode, Str(T.sequential)) \/ StrictEq(mode, Str(T.concurrent))

\* the body of the loop of getTrajectories
getTrajectory(trajectoryXML) ==
  The({ IF ~paths.ok THEN paths
        ELSE IF ~trajectory.ok THEN trajectory
        ELSE IF ~PathProcessingModeAllowed(trajectory.val.pathProcessingMode)
        THEN AssertionError("InvalidEnumValue", "PathProcessingMode")
        ELSE Return(trajectory.val @@ [paths |-> paths.val])
        : paths \in
            {Collect([i \in 1..Len(getElementsByTagName(trajectoryXML, "Path")) |->
                        getPath(getElementsByTagName(trajectoryXML, "Path")[i])])},
          trajectory \in {ReadObject(trajectoryXML, TrajectoryFields)} })

getTrajectories(doc) ==
  The({ Collect([i \in 1..Len(trajectoriesXML) |->
                   getTrajectory(trajectoriesXML[i])])
        : trajectoriesXML \in {getElementsByTagName(doc, "Trajectory")} })

\* the Layer literal of LoadXML, given the outcomes of its four calls in
\* source order
\* the four reads with the velocity profiles read before the segment styles
LayerOfParts_profilesFirst(header, segmentStyles, velocityProfiles, trajectories) ==
  IF ~header.ok THEN header
  ELSE IF ~velocityProfiles.ok THEN velocityProfiles
  ELSE IF ~segmentStyles.ok THEN segmentStyles
  ELSE IF ~trajectories.ok THEN trajectories
  ELSE Return([header |-> header.val,
               segmentStyles |-> segmentStyles.val,
               velocityProfiles |-> velocityProfiles.val,
               trajectories |-> trajectories.val])

LayerOfParts(header, segmentStyles, velocityProfiles, trajectories) ==
  IF ~header.ok THEN header
  ELSE IF ~segmentStyles.ok THEN segmentStyles
  ELSE IF ~velocityProfiles.ok THEN velocityProfiles
  ELSE IF ~trajectories.ok THEN trajectories
  ELSE Return([header |-> header.val,
               segmentStyles |-> segmentStyles.val,
               velocityProfiles |-> velocityProfiles.val,
               trajectories |-> trajectories.val])

\* LoadXML with the header read from the first block under the root
LoadXML_firstBlock(xmlDoc) ==
  LayerOfParts(InStage(getHeader(Document(xmlDoc.kids[1].kids[1])),
                       "getHeader"),
               InStage(getSegmentStyles(xmlDoc), "getSegmentStyles"),
               InStage(getVelocityProfiles(xmlDoc), "getVelocityProfiles"),
               InStage(getTrajectories(xmlDoc), "getTrajectories"))

\* LoadXML of the document tree DOMParser built from xmlStr
LoadXML(xmlDoc) ==
  LayerOfParts(InStage(getHeader(xmlDoc), "getHeader"),
               InStage(getSegmentStyles(xmlDoc), "getSegmentStyles"),
               InStage(getVelocityProfiles(xmlDoc), "getVelocityProfiles"),
               InStage(getTrajectories(xmlDoc), "getTrajectories"))

(***************************************************************************)
(* The documents LoadXML is called on.                                     *)
(***************************************************************************)
HeaderXML ==
  El("Header", << Leaf("AmericaMakesSchemaVersion", T.date),
                  Leaf("LayerNum", T.n3),
                  Leaf("LayerThickness", T.half) >>)

VelocityProfileXML(id, mode) ==
  El("VelocityProfile", << Leaf("ID", id),
                           Leaf("Velocity", T.n900),
                           Leaf("Mode", mode),
                           Leaf("LaserOnDelay", T.n1),
                           Leaf("LaserOffDelay", T.n2),
                           Leaf("JumpDelay", T.n3),
                           Leaf("MarkDelay", T.n0),
                           Leaf("PolygonDelay", T.half) >>)

\* a jump style: no Traveler, no LaserMode
JumpStyleXML(id) ==
  El("SegmentStyle", << Leaf("ID", id), Leaf("VelocityProfileID", T.v1) >>)

WobbleXML(on, shape) ==
  El("Wobble", << Leaf("On", on),
                  Leaf("Freq", T.n900),
                  Leaf("Shape", shape),
                  Leaf("TransAmp", T.half),
                  Leaf("LongAmp", T.half) >>)

\* wobbles: the Wobble blocks of the Traveler (none or one)
TravelerXML(id, wobbles) ==
  El("Traveler", << Leaf("ID", id), Leaf("SyncDelay", T.n0),
                    Leaf("Power", T.n900), Leaf("SpotSize", T.half) >>
                 \o wobbles)

MarkStyleXML(id, travelers) ==
  El("SegmentStyle", << Leaf("ID", id),
                        Leaf("VelocityProfileID", T.v1),
                        Leaf("LaserMode", T.Independent) >> \o travelers)

\* a Segment block as ExportXML lays it out: the end point inside <End>
SegmentXML(x, y) ==
  El("Segment", << Leaf("SegStyle", T.s1),
                   El("End", << Leaf("X", x), Leaf("Y", y) >>) >>)

\* points: the Start point, then the end point of every Segment
PathXML(numSegments, points) ==
  El("Path", << Leaf("Type", T.hatch),
                Leaf("Tag", T.s0),
                Leaf("NumSegments", numSegments),
                Leaf("SkyWritingMode", T.n0),
                El("Start", << Leaf("X", points[1][1]),
                               Leaf("Y", points[1][2]) >>) >>
             \o [i \in 1..(Len(points) - 1) |->
                   SegmentXML(points[i + 1][1], points[i + 1][2])])

TrajectoryXML(id, paths) ==
  El("Trajectory", << Leaf("TrajectoryID", id),
                      Leaf("PathProcessingMode", T.sequential) >> \o paths)

LayerXML(styles, profiles, trajectories) ==
  Document(El("Layer", << HeaderXML,
                          El("SegmentStyleList", styles),
                          El("VelocityProfileList", profiles),
                          El("TrajectoryList", trajectories) >>))

\* a valid document: a jump style, a style with one Traveler, one Path
DocWith(wobbles) ==
  LayerXML(<< JumpStyleXML(T.s0), MarkStyleXML(T.s1, <<TravelerXML(T.n1, wobbles)>>) >>,
           << VelocityProfileXML(T.v1, T.Delay) >>,
           << TrajectoryXML(T.t0,
                << PathXML(T.n2, << <<T.n0, T.n0>>, <<T.n1, T.n1>>,
                                    <<T.n2, T.n2>> >>) >>) >>)

BaseDoc == DocWith(<<>>)

\* the valid document whose Traveler carries a Wobble block
WobbleDoc(on, shape) == DocWith(<< WobbleXML(on, shape) >>)

WobbleDocs == {WobbleDoc(on, shape) : on \in {T.n0, T.n1},
                                      shape \in {T.minus1, T.n0, T.n1}}

(***************************************************************************)
(* Documents derived from another: one element removed, one text replaced. *)
(* A place is the sequence of child indices leading to an element.         *)
(***************************************************************************)
RECURSIVE Places(_)
\* the places of the descendants of node
Places(node) ==
  UNION {{<<i>>} \cup {<<i>> \o p : p \in Places(node.kids[i])} :
           i \in 1..Len(node.kids)}

RECURSIVE NodeAt(_, _)
NodeAt(node, place) ==
  IF place = <<>> THEN node ELSE NodeAt(node.kids[place[1]], Tail(place))

RECURSIVE RemoveAt(_, _)
\* node without the element at place
RemoveAt(node, place) ==
  IF Len(place) = 1
  THEN [node EXCEPT !.kids = Take(node.kids, place[1] - 1) \o Drop(node.kids, place[1])]
  ELSE [node EXCEPT !.kids[place[1]] = RemoveAt(@, Tail(place))]

RECURSIVE SetTextAt(_, _, _)
\* node with the text of the leaf element at place replaced
SetTextAt(node, place, text) ==
  IF place = <<>> THEN [node EXCEPT !.text = text]
  ELSE [node EXCEPT !.kids[place[1]] = SetTextAt(@, Tail(place), text)]

LeafPlaces(node) == {p \in Places(node) : NodeAt(node, p).kids = <<>>}

(***************************************************************************)
(* src/src/index.ts: the encoder.  The text ExportXML returns is modelled  *)
(* by the element tree it spells out, which is what DOMParser makes of it. *)
(***************************************************************************)
\* output += `<Tag>${v}</Tag>`
Emit(tag, v) == <<Leaf(tag, TemplateString(v))>>

\* if (v) output += `<Tag>${v}</Tag>`
EmitIfPresent_truthy(tag, v) == IF Truthy(v) THEN Emit(tag, v) ELSE <<>>

\* if (v != null) output += `<Tag>${v}</Tag>`
EmitIfPresent(tag, v) == IF NotNullish(v) THEN Emit(tag, v) ELSE <<>>

RECURSIVE Flatten(_)
\* the concatenation of the sequences of seqs, in order
Flatten(seqs) == IF seqs = <<>> THEN <<>> ELSE Head(seqs) \o Flatten(Tail(seqs))

GetHeaderString(layer) ==
  El("Header",
     Emit("AmericaMakesSchemaVersion", layer.header.americaMakesSchemaVersion)
       \o EmitIfPresent("LayerNum", layer.header.layerNum)
       \o Emit("LayerThickness", layer.header.layerThickness)
       \o EmitIfPresent("AbsoluteHeight", layer.header.absoluteHeight)
       \o EmitIfPresent("DosingFactor", layer.header.dosingFactor)
       \o EmitIfPresent("BuildDescription", layer.header.buildDescription))

\* traveler.wobble != null
HasWobble(traveler) == "on" \in DOMAIN traveler.wobble

WobbleString(wobble) ==
  <<El("Wobble", Emit("On", wobble.on)
                   \o Emit("Freq", wobble.freq)
                   \o Emit("Shape", wobble.shape)
                   \o Emit("TransAmp", wobble.transAmp)
                   \o Emit("LongAmp", wobble.longAmp))>>

TravelerString(traveler) ==
  <<El("Traveler",
       Emit("ID", traveler.ID)
         \o EmitIfPresent("SyncDelay", traveler.syncDelay)
         \o EmitIfPresent("Power", traveler.power)
         \o EmitIfPresent("SpotSize", traveler.spotSize)
         \o (IF HasWobble(traveler) THEN WobbleString(traveler.wobble)
             ELSE <<>>))>>

SegmentStyleString(segmentStyle) ==
  <<El("SegmentStyle",
       Emit("ID", segmentStyle.ID)
         \o Emit("VelocityProfileID", segmentStyle.velocityProfileID)
         \o EmitIfPresent("LaserMode", segmentStyle.laserMode)
         \o Flatten([i \in 1..Len(segmentStyle.travelers) |->
             TravelerString(segmentStyle.travelers[i])]))>>

GetSegmentStylesString(layer) ==
  El("SegmentStyleList", Flatten([i \in 1..Len(layer.segmentStyles) |->
             SegmentStyleString(layer.segmentStyles[i])]))

VelocityProfileString(velocityProfile) ==
  <<El("VelocityProfile",
       Emit("ID", velocityProfile.ID)
         \o Emit("Velocity", velocityProfile.velocity)
         \o Emit("Mode", velocityProfile.mode)
         \o Emit("LaserOnDelay", velocityProfile.laserOnDelay)
         \o Emit("LaserOffDelay", velocityProfile.laserOffDelay)
         \o Emit("JumpDelay", velocityProfile.jumpDelay)
         \o Emit("MarkDelay", velocityProfile.markDelay)
         \o Emit("PolygonDelay", velocityProfile.polygonDelay))>>

GetVelocityProfilesString(layer) ==
  El("VelocityProfileList",
     Flatten([i \in 1..Len(layer.velocityProfiles) |->
             VelocityProfileString(layer.velocityProfiles[i])]))

SegmentString(segment) ==
  <<El("Segment",
       EmitIfPresent("SegmentID", segment.segmentID)
         \o Emit("SegStyle", segment.segStyle)
         \o <<El("End", Emit("X", segment.x2) \o Emit("Y", segment.y2))>>)>>

\* the Start block and the Segment blocks written whatever numSegments is
WritesSegments_always(path) == TRUE

\* the Start block and the Segment blocks are written only
\* `if (path.numSegments > 0)`
WritesSegments(path) == Gt(path.numSegments, 0)

\* path.segments[0].x1 of a path without segments: a TypeError
PathThrows(path) == WritesSegments(path) /\ Len(path.segments) = 0

PathString(path) ==
  <<El("Path",
       Emit("Type", path.type)
         \o Emit("Tag", path.tag)
         \o Emit("NumSegments", path.numSegments)
         \o Emit("SkyWritingMode", path.skyWritingMode)
         \o (IF WritesSegments(path)
             THEN <<El("Start", Emit("X", path.segments[1].x1)
                                  \o Emit("Y", path.segments[1].y1))>>
                    \o Flatten([i \in 1..Len(path.segments) |->
             SegmentString(path.segments[i])])
             ELSE <<>>))>>

TrajectoryString(trajectory) ==
  <<El("Trajectory",
       Emit("TrajectoryID", trajectory.trajectoryID)
         \o Emit("PathProcessingMode", trajectory.pathProcessingMode)
         \o Flatten([i \in 1..Len(trajectory.paths) |->
             PathString(trajectory.paths[i])]))>>

GetTrajectoriesString(layer) ==
  El("TrajectoryList", Flatten([i \in 1..Len(layer.trajectories) |->
             TrajectoryString(layer.trajectories[i])]))

\* whether GetTrajectoriesString throws on layer
TrajectoriesThrow(layer) ==
  \E i \in 1..Len(layer.trajectories) :
    \E j \in 1..Len(layer.trajectories[i].paths) :
      PathThrows(layer.trajectories[i].paths[j])

\* ExportXML with the velocity-profile list appended before the segment styles
ExportXML_profilesFirst(layer) ==
  IF TrajectoriesThrow(layer) THEN TypeError("x1")
  ELSE Return(Document(El("Layer", << GetHeaderString(layer),
                                      GetVelocityProfilesString(layer),
                                      GetSegmentStylesString(layer),
                                      GetTrajectoriesString(layer) >>)))

\* ExportXML: the document its text spells out, or the TypeError
ExportXML(layer) ==
  IF TrajectoriesThrow(layer) THEN TypeError("x1")
  ELSE Return(Document(El("Layer", << GetHeaderString(layer),
                                      GetSegmentStylesString(layer),
                                      GetVelocityProfilesString(layer),
                                      GetTrajectoriesString(layer) >>)))

(***************************************************************************)
(* src/alsam-xml.js: the decoder of the published JavaScript module.      *)
(* Every value it stores is the text of the element (or null).            *)
(***************************************************************************)
\* throw new Error(`INVALID SCHEMA: ...`)
Error(reason, field) == Throw("Error", reason, field)

\* isIntegerRegex.test(v), the regular expression being /^[0-9]*$/ as in
\* src/src/validation.ts: test converts v to text, a null to "null"
isIntegerRegex_js(v) == isIntegerRegex(TemplateString(v))

\* isFloatRegex.test(v): /^[+-]?([0-9]*[.])?[0-9]+$/
isFloatRegex_js(v) == isFloatRegex(TemplateString(v))

getOptionalValue_js(xmlNode, tagName) ==
  IF xmlNode = NoNode THEN TypeError(tagName)
  ELSE The({ IF node # NoNode THEN Return(Str(textContent(node)))
             ELSE Return(Null)
             : node \in {First(getElementsByTagName(xmlNode, tagName))} })

getMandatoryValue_js(xmlNode, tagName) ==
  IF xmlNode = NoNode THEN TypeError(tagName)
  ELSE The({ IF node # NoNode THEN Return(Str(textContent(node)))
             ELSE Error("MissingMandatoryField", tagName)
             : node \in {First(getElementsByTagName(xmlNode, tagName))} })

\* xmlNode.getElementsByTagName(tagName)[0].textContent
TextOfFirst_js(xmlNode, tagName) ==
  IF xmlNode = NoNode THEN TypeError(tagName)
  ELSE The({ IF node = NoNode THEN TypeError(tagName)
             ELSE Return(Str(textContent(node)))
             : node \in {First(getElementsByTagName(xmlNode, tagName))} })

\* an object literal of accessor calls, evaluated in source order
ReadObject_js(xmlNode, fields) ==
  ObjectOf(fields, [i \in 1..Len(fields) |->
                      IF fields[i][4]
                      THEN getMandatoryValue_js(xmlNode, fields[i][2])
                      ELSE getOptionalValue_js(xmlNode, fields[i][2])])

\* v !== null && parse(v) < 0, for parse one of parseInt, parseFloat
NegativeInt_js(v) == v.t # "null" /\ Lt(parseInt(v.s), 0)

NegativeFloat_js(v) == v.t # "null" /\ Lt(parseFloat(v.s), 0)

getHeader_js(xmlDoc) ==
  The({ IF ~output.ok THEN output
        ELSE IF ~dateRegex(output.val.americaMakesSchemaVersion.s)
        THEN Error("MalformedDate", "AmericaMakesSchemaVersion")
        ELSE IF NegativeInt_js(output.val.layerNum)
        THEN Error("OutOfRange", "LayerNum")
        ELSE IF NegativeFloat_js(output.val.layerThickness)
        THEN Error("OutOfRange", "LayerThickness")
        ELSE IF NegativeFloat_js(output.val.absoluteHeight)
        THEN Error("OutOfRange", "AbsoluteHeight")
        ELSE IF NegativeFloat_js(output.val.dosingFactor)
        THEN Error("OutOfRange", "DosingFactor")
        ELSE output
        : output \in {ReadObject_js(xmlDoc, HeaderFields)} })

\* the body of the loop of getVelocityProfiles
getVelocityProfile_js(style) ==
  The({ IF ~profile.ok THEN profile
        ELSE IF NegativeFloat_js(profile.val.velocity)
        THEN Error("OutOfRange", "Velocity")
        ELSE IF ~ModeAllowed(profile.val.mode)
        THEN Error("InvalidEnumValue", "Mode")
        ELSE profile
        : profile \in {ReadObject_js(style,
            << <<"id", "ID", "string", TRUE>>,
               <<"velocity", "Velocity", "float", TRUE>>,
               <<"mode", "Mode", "string", TRUE>>,
               <<"laserOnDelay", "LaserOnDelay", "float", TRUE>>,
               <<"laserOffDelay", "LaserOffDelay", "float", TRUE>>,
               <<"jumpDelay", "JumpDelay", "float", TRUE>>,
               <<"markDelay", "MarkDelay", "float", TRUE>>,
               <<"polygonDelay", "PolygonDelay", "float", TRUE>> >>)} })

getVelocityProfiles_js(xmlDoc) ==
  The({ Collect([i \in 1..Len(velocityProfiles) |->
                   getVelocityProfile_js(velocityProfiles[i])])
        : velocityProfiles \in {getElementsByTagName(xmlDoc, "VelocityProfile")} })

\* parseInt(v) is one of the integers of allowed
ParsesTo_js(v, allowed) ==
  /\ parseInt(v.s).t = "number"
  /\ parseInt(v.s).n \in {a * Scale : a \in allowed}

\* the block `if (wobble.length > 0) { wobble = new Wobble(...); ... }` on
\* wobbleElem = wobble[0]
getWobble_js(wobbleElem) ==
  The({ IF ~wobble.ok THEN wobble
        ELSE IF ~ParsesTo_js(wobble.val.on, {0, 1})
        THEN Error("InvalidEnumValue", "On")
        ELSE IF ~isIntegerRegex_js(wobble.val.freq)
        THEN Error("TypeMismatch", "Freq")
        ELSE IF ~ParsesTo_js(wobble.val.shape, {-1, 0, 1})
        THEN Error("InvalidEnumValue", "Shape")
        ELSE wobble
        : wobble \in {ReadObject_js(wobbleElem, WobbleFields)} })

\* the body of the loop over travelersXML
getTraveler_js(travelerXML) ==
  The({ IF ~wobble.ok THEN wobble
        ELSE IF ~traveler.ok THEN traveler
        ELSE IF ~isIntegerRegex_js(traveler.val.id)
        THEN Error("TypeMismatch", "ID")
        ELSE IF /\ traveler.val.syncDelay.t # "null"
                /\ ~isIntegerRegex_js(traveler.val.syncDelay)
        THEN Error("TypeMismatch", "SyncDelay")
        ELSE IF ~isFloatRegex_js(traveler.val.power)
        THEN Error("TypeMismatch", "Power")
        ELSE IF ~isFloatRegex_js(traveler.val.spotSize)
        THEN Error("TypeMismatch", "SpotSize")
        ELSE Return(traveler.val @@ [wobble |-> wobble.val])
        : wobble \in
            {IF Len(getElementsByTagName(travelerXML, "Wobble")) > 0
             THEN getWobble_js(getElementsByTagName(travelerXML, "Wobble")[1])
             ELSE Return(Null)},
          traveler \in {ReadObject_js(travelerXML,
            << <<"id", "ID", "integer", TRUE>>,
               <<"syncDelay", "SyncDelay", "integer", FALSE>>,
               <<"power", "Power", "float", FALSE>>,
               <<"spotSize", "SpotSize", "float", FALSE>> >>)} })

\* getMandatoryValue(style, "LaserMode"), whatever the Travelers
LaserModeOf_js_always(style, travelers) == getMandatoryValue_js(style, "LaserMode")

\* travelers.length !== 0 ? getMandatoryValue(style, "LaserMode") : null
LaserModeOf_js(style, travelers) ==
  IF travelers.ok /\ Len(travelers.val) # 0
  THEN getMandatoryValue_js(style, "LaserMode")
  ELSE Return(Null)

\* the body of the loop of getSegmentStyles
getSegmentStyle_js(style) ==
  The({ IF ~travelers.ok THEN travelers
        ELSE IF ~ids.ok THEN ids
        ELSE IF ~LaserModeOf_js(style, travelers).ok
        THEN LaserModeOf_js(style, travelers)
        ELSE IF /\ LaserModeOf_js(style, travelers).val.t # "null"
                /\ ~StrictEq(LaserModeOf_js(style, travelers).val,
                             Str(T.Independent))
                /\ ~StrictEq(LaserModeOf_js(style, travelers).val,
                             Str(T.FollowMe))
        THEN Error("InvalidEnumValue", "LaserMode")
        ELSE Return(ids.val @@
                    [laserMode |-> LaserModeOf_js(style, travelers).val,
                     travelers |-> travelers.val])
        : travelers \in
            {Collect([i \in 1..Len(getElementsByTagName(style, "Traveler")) |->
                        getTraveler_js(getElementsByTagName(style, "Traveler")[i])])},
          ids \in {ReadObject_js(style,
            << <<"id", "ID", "string", TRUE>>,
               <<"velocityProfileID", "VelocityProfileID", "string", TRUE>> >>)} })

getSegmentStyles_js(xmlDoc) ==
  The({ Collect([i \in 1..Len(segmentStyles) |->
                   getSegmentStyle_js(segmentStyles[i])])
        : segmentStyles \in {getElementsByTagName(xmlDoc, "SegmentStyle")} })

\* the Segment literal and the check that x2 and y2 are floats
getSegment_js(segmentXML, lastX, lastY) ==
  The({ IF ~read.ok THEN read
        ELSE IF ~isFloatRegex_js(read.val.x2) \/ ~isFloatRegex_js(read.val.y2)
        THEN Error("TypeMismatch", "X")
        ELSE Return(read.val @@ [x1 |-> lastX, y1 |-> lastY])
        : read \in {ReadObject_js(segmentXML, SegmentFields)} })

RECURSIVE getSegments_js(_, _, _, _, _)
\* the loop over segmentsXML from index i on
getSegments_js(segmentsXML, i, lastX, lastY, segments) ==
  IF i > Len(segmentsXML) THEN Return(segments)
  ELSE The({ IF ~segment.ok THEN [segment EXCEPT !.err.at = <<i>> \o @]
             ELSE getSegments_js(segmentsXML, i + 1, segment.val.x2,
                                 segment.val.y2, Append(segments, segment.val))
             : segment \in {getSegment_js(segmentsXML[i], lastX, lastY)} })

\* path.skyWritingMode is one of the texts "0", "1", "2", "3"
SkyWritingModeAllowed_js(mode) == mode.s \in {T.n0, T.n1, T.n2, T.n3}

\* the block `if (paths.length !== 0) { ... }` on pathXML = paths[0]
getPath_js(pathXML) ==
  The({ IF ~path.ok THEN path
        ELSE IF ~PathTypeAllowed(path.val.type)
        THEN Error("InvalidEnumValue", "Type")
        ELSE IF ~SkyWritingModeAllowed_js(path.val.skyWritingMode)
        THEN Error("InvalidEnumValue", "SkyWritingMode")
        ELSE IF ~lastX.ok THEN lastX
        ELSE IF ~lastY.ok THEN lastY
        ELSE getPathWith(path,
               getSegments_js(getElementsByTagName(pathXML, "Segment"), 1,
                              lastX.val, lastY.val, <<>>))
        : path \in {ReadObject_js(pathXML, PathFields)},
          lastX \in {TextOfFirst_js(
                       First(getElementsByTagName(pathXML, "Start")), "X")},
          lastY \in {TextOfFirst_js(
                       First(getElementsByTagName(pathXML, "Start")), "Y")} })

\* the body of the loop of getTrajectories: only the first Path of the
\* trajectory is read, and without one path stays null
getTrajectory_js(trajectoryXML) ==
  The({ IF ~path.ok THEN [path EXCEPT !.err.at = <<1>> \o @]
        ELSE IF ~trajectory.ok THEN trajectory
        ELSE IF ~PathProcessingModeAllowed(trajectory.val.pathProcessingMode)
        THEN Error("InvalidEnumValue", "PathProcessingMode")
        ELSE Return(trajectory.val @@ [path |-> path.val])
        : path \in
            {IF Len(getElementsByTagName(trajectoryXML, "Path")) # 0
             THEN getPath_js(getElementsByTagName(trajectoryXML, "Path")[1])
             ELSE Return(Null)},
          trajectory \in {ReadObject_js(trajectoryXML, TrajectoryFields)} })

getTrajectories_js(doc) ==
  The({ Collect([i \in 1..Len(trajectoriesXML) |->
                   getTrajectory_js(trajectoriesXML[i])])
        : trajectoriesXML \in {getElementsByTagName(doc, "Trajectory")} })

\* LoadXML of src/alsam-xml.js: the Build
LoadXML_js(xmlDoc) ==
  LayerOfParts(InStage(getHeader_js(xmlDoc), "getHeader"),
               InStage(getSegmentStyles_js(xmlDoc), "getSegmentStyles"),
               InStage(getVelocityProfiles_js(xmlDoc), "getVelocityProfiles"),
               InStage(getTrajectories_js(xmlDoc), "getTrajectories"))

(***************************************************************************)
(* src/alsam-xml.js: the encoder of the published JavaScript module.  Its  *)
(* GetHeaderString is that of src/src/index.ts, and so is the text of its  *)
(* Wobble block; the objects name the ID of a style, a traveler and a      *)
(* profile `id`.                                                           *)
(***************************************************************************)
GetSegmentStylesString_js(build) ==
  El("SegmentStyleList",
     Flatten([i \in 1..Len(build.segmentStyles) |->
       <<El("SegmentStyle",
            Emit("ID", build.segmentStyles[i].id)
              \o Emit("VelocityProfileID",
                      build.segmentStyles[i].velocityProfileID)
              \o EmitIfPresent("LaserMode", build.segmentStyles[i].laserMode)
              \o Flatten([j \in 1..Len(build.segmentStyles[i].travelers) |->
                   The({ <<El("Traveler",
                              Emit("ID", traveler.id)
                                \o EmitIfPresent("SyncDelay",
                                                  traveler.syncDelay)
                                \o EmitIfPresent("Power", traveler.power)
                                \o EmitIfPresent("SpotSize", traveler.spotSize)
                                \o (IF HasWobble(traveler)
                                    THEN WobbleString(traveler.wobble)
                                    ELSE <<>>))>>
                         : traveler \in
                             {build.segmentStyles[i].travelers[j]} })]))>>]))

GetVelocityProfilesString_js(build) ==
  El("VelocityProfileList",
     Flatten([i \in 1..Len(build.velocityProfiles) |->
       The({ <<El("VelocityProfile",
                  Emit("ID", velocityProfile.id)
                    \o Emit("Velocity", velocityProfile.velocity)
                    \o Emit("Mode", velocityProfile.mode)
                    \o Emit("LaserOnDelay", velocityProfile.laserOnDelay)
                    \o Emit("LaserOffDelay", velocityProfile.laserOffDelay)
                    \o Emit("JumpDelay", velocityProfile.jumpDelay)
                    \o Emit("MarkDelay", velocityProfile.markDelay)
                    \o Emit("PolygonDelay", velocityProfile.polygonDelay))>>
             : velocityProfile \in {build.velocityProfiles[i]} })]))

\* ExportXML: the header, the segment styles and the velocity profiles; the
\* line that appends GetTrajectoriesString(build) is commented out, and that
\* function returns the empty text
ExportXML_js(build) ==
  Return(Document(El("Layer", << GetHeaderString(build),
                                 GetSegmentStylesString_js(build),
                                 GetVelocityProfilesString_js(build) >>)))

\* the texts put in place of the text of a leaf element
Lexicon ==
  { T.date, T.half, T.Delay, T.Independent, T.hatch, T.sequential,
    <<>>,
    <<"0">>,
    <<"1">>,
    <<"3">>,
    <<"4">>,
    <<"-", "1">>,
    <<"+", "3">>,
    <<"1", ".", "0">>,
    <<"1", ".">>,
    <<".", "5">>,
    <<"-", "1", ".", "0">>,
    <<"0", ".", "0">>,
    <<"1", ".", "5", "0">>,
    <<"-", "0", ".", "5">>,
    <<"1", ".", "2", ".", "3">>,
    <<"a", "b", "c">>,
    <<"1", "e", "3">>,
    <<"A", "u", "t", "o">>,
    <<"F", "a", "s", "t">>,
    <<"a", "u", "t", "o">>,
    <<"A", "u", "t", "o", " ">>,
    <<"2", "0", "2", "0", "-", "3", "-", "2", "3">>,
    <<"2", "0", "2", "0", "-", "0", "3", "-", "2", "3", "4">>,
    <<"2", "0", "2", "0", "-", "0", "3", "2", "3">>,
    <<"2", "0", "2", "0", "-", "0", "3", "-", "2", "x">>,
    <<"x", "2", "0", "2", "0", "-", "0", "3", "-", "2", "3">>,
    <<"2", "0", "2", "0", "/", "0", "3", "/", "2", "3">>,
    <<"H", "a", "t", "c", "h">>,
    <<"c", "o", "n", "t", "o", "u", "r">>,
    <<"C", "o", "n", "t", "o", "u", "r">>,
    <<"c", "o", "n", "c", "u", "r", "r", "e", "n", "t">>,
    <<"S", "e", "q", "u", "e", "n", "t", "i", "a", "l">>,
    <<"F", "o", "l", "l", "o", "w", "M", "e">>,
    <<"f", "o", "l", "l", "o", "w", "m", "e">> }

\* the valid documents the others are derived from
ValidDocs ==
  {BaseDoc,
   [BaseDoc EXCEPT !.kids[1].kids[2].kids[1].kids =
                     @ \o <<Leaf("LaserMode", T.hatch)>>]} \cup WobbleDocs

\* a valid document without one of its elements
RemovalDocs ==
  {RemoveAt(d, p) : d \in {BaseDoc}, p \in Places(BaseDoc) \ {<<1>>}}
    \cup {RemoveAt(WobbleDoc(T.n1, T.n0), p) :
            p \in Places(WobbleDoc(T.n1, T.n0)) \ {<<1>>}}

\* the valid document with the text of one leaf element replaced
RetextDocs ==
  {SetTextAt(BaseDoc, p, t) : p \in LeafPlaces(BaseDoc), t \in Lexicon}

\* the points of the generated paths, as the texts of X and Y
\* every chain of a Start point and at most MaxSegments end points over ps
Chains(ps) ==
  UNION {[1..k -> ps] : k \in 1..(MaxSegments + 1)}

\* the valid document with its Path replaced by a chain of points
ChainDoc(points) ==
  LayerXML(<< JumpStyleXML(T.s0), MarkStyleXML(T.s1, <<TravelerXML(T.n1, <<>>)>>) >>,
           << VelocityProfileXML(T.v1, T.Auto) >>,
           << TrajectoryXML(T.t0,
                << PathXML(NatToDigits(Len(points) - 1), points) >>) >>)

ChainDocs ==
  {ChainDoc(points) :
     points \in Chains({<<T.n0, T.n0>>, <<T.n1_5, T.n2>>,
                        <<T.minus2, T.n1_5>>})}

\* documents with several elements of a kind: two styles or two profiles of
\* one ID, a style or a profile that breaks a rule, two trajectories of two
\* and of one Path; and the same with a LayerThickness of 0
RepeatDocs ==
  UNION {{d, SetTextAt(d, <<1, 1, 3>>, T.n0)} :
    d \in {LayerXML(<<JumpStyleXML(T.s0)>> \o styles, profiles, trajectories) :
      styles \in
        { << MarkStyleXML(T.s1, <<TravelerXML(T.n1, <<>>)>>) >>,
          << JumpStyleXML(T.s0),
             MarkStyleXML(T.s1, <<TravelerXML(T.n1, <<>>)>>) >>,
          << MarkStyleXML(T.s1, <<TravelerXML(T.half, <<>>)>>) >> },
      profiles \in
        { << VelocityProfileXML(T.v1, T.Delay) >>,
          << VelocityProfileXML(T.v1, T.Delay),
             VelocityProfileXML(T.v1, T.Auto) >>,
          << VelocityProfileXML(T.v1, T.hatch) >> },
      trajectories \in
        { << TrajectoryXML(T.t0,
               << PathXML(T.n1, << <<T.n0, T.n0>>, <<T.n1, T.n2>> >>) >>) >>,
          << TrajectoryXML(T.t0,
               << PathXML(T.n1, << <<T.n0, T.n0>>, <<T.n1, T.n2>> >>),
                  PathXML(T.n1, << <<T.n2, T.n2>>, <<T.n3, T.n0>> >>) >>),
             TrajectoryXML(T.s1,
               << PathXML(T.n1, << <<T.n3, T.n3>>, <<T.n0, T.n1>> >>) >>) >> }}}

\* the four blocks under the root in every order: of the valid documents, of
\* the valid document without its Start block, and of the documents above
ReorderDocs ==
  {[d EXCEPT !.kids[1].kids = [i \in 1..4 |-> @[order[i]]]] :
     d \in {BaseDoc, WobbleDoc(T.n1, T.n0),
            RemoveAt(BaseDoc, CHOOSE p \in Places(BaseDoc) :
                                NodeAt(BaseDoc, p).tag = "Start")}
             \cup RepeatDocs,
     order \in Permutations(1..4)}

Documents ==
  ValidDocs \cup RemovalDocs \cup RetextDocs \cup ChainDocs \cup RepeatDocs
    \cup ReorderDocs

(***************************************************************************)
(* The Layers ExportXML is called on: every field holds a valid value of   *)
(* the type src/src/types.ts declares.                                     *)
(***************************************************************************)
N_half == Num(Scale \div 2)

HeaderOf(layerNum) ==
  [americaMakesSchemaVersion |-> Str(T.date),
   layerNum |-> layerNum,
   layerThickness |-> N_half,
   absoluteHeight |-> Undefined,
   dosingFactor |-> Undefined,
   buildDescription |-> Undefined]

VelocityProfileOf(id) ==
  [ID |-> Str(id), velocity |-> Int2Num(900), mode |-> Str(T.Delay),
   laserOnDelay |-> Int2Num(1), laserOffDelay |-> Int2Num(2),
   jumpDelay |-> Int2Num(3), markDelay |-> Int2Num(0),
   polygonDelay |-> N_half]

WobbleOf(on, shape) ==
  [on |-> Int2Num(on), freq |-> Int2Num(900), shape |-> Int2Num(shape),
   transAmp |-> N_half, longAmp |-> N_half]

\* the wobble of a Traveler: null, or a Wobble
Wobbles == {Null} \cup {WobbleOf(on, shape) : on \in {0, 1}, shape \in {-1, 0, 1}}

TravelerOf(wobble) ==
  [ID |-> Int2Num(1), syncDelay |-> Int2Num(0), power |-> Int2Num(900),
   spotSize |-> N_half, wobble |-> wobble]

JumpStyleOf(id) ==
  [ID |-> Str(id), velocityProfileID |-> Str(T.v1), laserMode |-> Undefined,
   travelers |-> <<>>]

MarkStyleOf(id, travelers) ==
  [ID |-> Str(id), velocityProfileID |-> Str(T.v1),
   laserMode |-> Str(T.Independent), travelers |-> travelers]

\* the points of the generated paths, as numbers
PointNumbers ==
  { <<Int2Num(0), Int2Num(0)>>,
    <<Num((3 * Scale) \div 2), Int2Num(2)>>,
    <<Int2Num(-2), Num((3 * Scale) \div 2)>> }

\* the segments that chain points: segment i runs from point i to point i+1
SegmentsOf(points) ==
  [i \in 1..(Len(points) - 1) |->
     [x1 |-> points[i][1], y1 |-> points[i][2],
      x2 |-> points[i + 1][1], y2 |-> points[i + 1][2],
      segmentID |-> Undefined, segStyle |-> Str(T.s1)]]

PathOf(points) ==
  [type |-> Str(T.hatch), tag |-> Str(T.s0),
   numSegments |-> Int2Num(Len(points) - 1), skyWritingMode |-> Int2Num(0),
   segments |-> SegmentsOf(points)]

LayerOf(layerNum, wobble, points) ==
  [header |-> HeaderOf(layerNum),
   segmentStyles |-> << JumpStyleOf(T.s0),
                        MarkStyleOf(T.s1, <<TravelerOf(wobble)>>) >>,
   velocityProfiles |-> << VelocityProfileOf(T.v1) >>,
   trajectories |-> << [trajectoryID |-> Str(T.t0),
                        pathProcessingMode |-> Str(T.sequential),
                        paths |-> << PathOf(points) >>] >>]

\* the Layers of the calls: four kinds have an empty list somewhere, and the
\* last of them declares segments its path does not hold; the last kind has
\* optional values that are zero, that are there, and that are not
Layers ==
  {LayerOf(layerNum, wobble, points) :
     layerNum \in {Undefined, Int2Num(3)}, wobble \in Wobbles,
     points \in Chains(PointNumbers)}
  \cup UNION {{ [l EXCEPT !.trajectories = <<>>],
                [l EXCEPT !.trajectories = <<>>, !.segmentStyles = <<>>,
                          !.velocityProfiles = <<>>],
                [l EXCEPT !.trajectories[1].paths = <<>>],
                [l EXCEPT !.trajectories[1].paths[1].segments = <<>>] } :
              l \in {LayerOf(Int2Num(3), Null, points) :
                       points \in Chains(PointNumbers)}}
  \cup {[l EXCEPT !.header.absoluteHeight = N_half,
                  !.header.buildDescription = Str(T.s0),
                  !.segmentStyles[2].travelers[1].power = Int2Num(0),
                  !.segmentStyles[2].travelers[1].spotSize = Undefined,
                  !.trajectories[1].paths[1].segments[1].segmentID
                     = Str(T.s0)] :
          l \in {LayerOf(Int2Num(0), wobble,
                         << <<Int2Num(0), Int2Num(0)>>,
                            <<Int2Num(-2), Num((3 * Scale) \div 2)>>,
                            <<Int2Num(0), Int2Num(0)>> >>) :
                   wobble \in {Null, WobbleOf(1, 0)}}}

(***************************************************************************)
(* The state: one run of a caller of the module, which calls LoadXML on a  *)
(* document, or ExportXML on a Layer and then LoadXML on the text it got,  *)
(* and goes on calling after a call on a valid document.  Neither module   *)
(* keeps a binding that a call writes: the state is what the caller holds. *)
(***************************************************************************)
VARIABLES
  op,        \* the last call: "none", "LoadXML", "ExportXML", "Reload"
  impl,      \* the module called: "ts" (src/src/index.ts), "js" (src/alsam-xml.js)
  xmlDoc,    \* the document of the last LoadXML call
  loaded,    \* what that call returned or threw
  layer,     \* the Layer of the last ExportXML call
  exported   \* what that call returned or threw

vars == <<op, impl, xmlDoc, loaded, layer, exported>>

\* no call yet
NotCalled == [ok |-> FALSE, val |-> Undefined, err |-> NoErr]

NoDoc == Document(El("Layer", <<>>))

Init ==
  /\ op = "none"
  /\ impl = "ts"
  /\ xmlDoc = NoDoc
  /\ loaded = NotCalled
  /\ layer = Undefined
  /\ exported = NotCalled

\* LoadXML that returns the Layer of the call before, if there is one
CallLoadXML_cached ==
  \E d \in (IF op = "none" THEN Documents ELSE ValidDocs) :
    /\ op = "none" \/ xmlDoc \in ValidDocs
    /\ op' = "LoadXML"
    /\ impl' = "ts"
    /\ xmlDoc' = d
    /\ loaded' = IF loaded.ok THEN loaded ELSE LoadXML(d)
    /\ layer' = Undefined
    /\ exported' = NotCalled

\* LoadXML(xmlStr) of src/src/index.ts on a document: the first call of the
\* run, or a call that follows a call on a valid document
CallLoadXML ==
  \E d \in (IF op = "none" THEN Documents ELSE ValidDocs) :
    /\ op = "none" \/ xmlDoc \in ValidDocs
    /\ op' = "LoadXML"
    /\ impl' = "ts"
    /\ xmlDoc' = d
    /\ loaded' = LoadXML(d)
    /\ layer' = Undefined
    /\ exported' = NotCalled

\* LoadXML(xmlStr) of src/alsam-xml.js on a document, likewise
CallLoadXML_js ==
  \E d \in (IF op = "none" THEN Documents ELSE ValidDocs) :
    /\ op = "none" \/ xmlDoc \in ValidDocs
    /\ op' = "LoadXML"
    /\ impl' = "js"
    /\ xmlDoc' = d
    /\ loaded' = LoadXML_js(d)
    /\ layer' = Undefined
    /\ exported' = NotCalled

\* ExportXML(layer) of src/src/index.ts on a Layer: the first call of the
\* run, or a call on the Layer LoadXML has just returned for a valid document
CallExportXML ==
  \E l \in (IF op = "none" THEN Layers
            ELSE IF op = "LoadXML" /\ impl = "ts" /\ loaded.ok
                    /\ xmlDoc \in ValidDocs
            THEN {loaded.val} ELSE {}) :
    /\ op' = "ExportXML"
    /\ impl' = "ts"
    /\ layer' = l
    /\ exported' = ExportXML(l)
    /\ xmlDoc' = NoDoc
    /\ loaded' = NotCalled

\* ExportXML(build) of src/alsam-xml.js on the Build its LoadXML returned
CallExportXML_js ==
  /\ op = "LoadXML"
  /\ impl = "js"
  /\ loaded.ok
  /\ op' = "ExportXML"
  /\ layer' = loaded.val
  /\ exported' = ExportXML_js(loaded.val)
  /\ UNCHANGED <<impl, xmlDoc, loaded>>

\* LoadXML of the same module on the text ExportXML just returned
CallLoadXMLOfExported ==
  /\ op = "ExportXML"
  /\ exported.ok
  /\ op' = "Reload"
  /\ xmlDoc' = exported.val
  /\ loaded' = IF impl = "ts" THEN LoadXML(exported.val)
                ELSE LoadXML_js(exported.val)
  /\ UNCHANGED <<impl, layer, exported>>

Next ==
  \/ CallLoadXML
  \/ CallLoadXML_js
  \/ CallExportXML
  \/ CallExportXML_js
  \/ CallLoadXMLOfExported

Spec == Init /\ [][Next]_vars

(***************************************************************************)
(* What the properties below read from the state.                          *)
(***************************************************************************)
\* a LoadXML call of src/src/index.ts has returned or thrown
LoadedTs == op \in {"LoadXML", "Reload"} /\ impl = "ts"

\* a LoadXML call of src/alsam-xml.js has returned or thrown
LoadedJs == op = "LoadXML" /\ impl = "js"

\* the text a document declares under tagName inside node, <<>> if none
Declared(node, tagName) ==
  textContent(First(getElementsByTagName(node, tagName)))

\* the same scalar: equal, or numbers of equal value whatever their form
SameValue(a, b) ==
  a = b \/ (ToNumber(a).t = "number" /\ ToNumber(a) = ToNumber(b))

SameFields(a, b, fields) == \A f \in fields : SameValue(a[f], b[f])

SameWobble(a, b) ==
  IF a = Null \/ b = Null THEN a = b
  ELSE SameFields(a, b, {"on", "freq", "shape", "transAmp", "longAmp"})

SameTraveler(a, b) ==
  /\ SameFields(a, b, {"ID", "syncDelay", "power", "spotSize"})
  /\ SameWobble(a.wobble, b.wobble)

SameSegmentStyle(a, b) ==
  /\ SameFields(a, b, {"ID", "velocityProfileID", "laserMode"})
  /\ Len(a.travelers) = Len(b.travelers)
  /\ \A i \in 1..Len(a.travelers) : SameTraveler(a.travelers[i], b.travelers[i])

SamePath(a, b) ==
  /\ SameFields(a, b, {"type", "tag", "numSegments", "skyWritingMode"})
  /\ Len(a.segments) = Len(b.segments)
  /\ \A i \in 1..Len(a.segments) :
       SameFields(a.segments[i], b.segments[i],
                  {"x1", "y1", "x2", "y2", "segmentID", "segStyle"})

SameTrajectory(a, b) ==
  /\ SameFields(a, b, {"trajectoryID", "pathProcessingMode"})
  /\ Len(a.paths) = Len(b.paths)
  /\ \A i \in 1..Len(a.paths) : SamePath(a.paths[i], b.paths[i])

\* structural equality of two Layers
SameLayer(a, b) ==
  /\ SameFields(a.header, b.header, DOMAIN b.header)
  /\ Len(a.velocityProfiles) = Len(b.velocityProfiles)
  /\ \A i \in 1..Len(a.velocityProfiles) :
       SameFields(a.velocityProfiles[i], b.velocityProfiles[i],
                  DOMAIN b.velocityProfiles[i])
  /\ Len(a.segmentStyles) = Len(b.segmentStyles)
  /\ \A i \in 1..Len(a.segmentStyles) :
       SameSegmentStyle(a.segmentStyles[i], b.segmentStyles[i])
  /\ Len(a.trajectories) = Len(b.trajectories)
  /\ \A i \in 1..Len(a.trajectories) :
       SameTrajectory(a.trajectories[i], b.trajectories[i])

(***************************************************************************)
(* C1: round trip.                                                         *)
(***************************************************************************)
\* C1: for every Layer of valid field values (Travelers with a Wobble and
\* paths without segments included), LoadXML of the text ExportXML returned
\* for it succeeds and yields a Layer structurally equal to it.
C1_RoundTrip ==
  (op = "Reload" /\ impl = "ts") => loaded.ok /\ SameLayer(loaded.val, layer)

\* the part of C1 the code keeps: a Layer whose Travelers carry no Wobble and
\* whose paths have a segment comes back structurally equal
C1_RoundTripWithoutWobble ==
  (/\ op = "Reload" /\ impl = "ts"
   /\ \A i \in 1..Len(layer.segmentStyles) :
        \A j \in 1..Len(layer.segmentStyles[i].travelers) :
          ~HasWobble(layer.segmentStyles[i].travelers[j])
   /\ \A i \in 1..Len(layer.trajectories) :
        \A j \in 1..Len(layer.trajectories[i].paths) :
          Len(layer.trajectories[i].paths[j].segments) > 0)
  => loaded.ok /\ SameLayer(loaded.val, layer)

\* C1: a Layer whose Traveler carries a Wobble was exported and the reload failed
C1_WobbleReloadFails ==
  /\ op = "Reload" /\ impl = "ts"
  /\ Len(layer.segmentStyles) = 2
  /\ HasWobble(layer.segmentStyles[2].travelers[1])
  /\ Len(layer.trajectories) = 1
  /\ Len(layer.trajectories[1].paths) = 1
  /\ Len(layer.trajectories[1].paths[1].segments) > 0
  /\ ~loaded.ok

\* C1: a Layer with a path of zero segments was exported and the reload failed
C1_EmptyPathReloadFails ==
  /\ op = "Reload" /\ impl = "ts"
  /\ Len(layer.segmentStyles) = 2
  /\ ~HasWobble(layer.segmentStyles[2].travelers[1])
  /\ Len(layer.trajectories) = 1
  /\ Len(layer.trajectories[1].paths) = 1
  /\ Len(layer.trajectories[1].paths[1].segments) = 0
  /\ ~loaded.ok

(***************************************************************************)
(* C2: cursor chaining.                                                    *)
(***************************************************************************)
\* the segments decoded from pathXML chain as the document declares: as many
\* as Segment blocks, in document order, each ending at the X/Y of its own
\* block and starting where the one before ends, the first at Start
Chained(segments, pathXML) ==
  /\ Len(segments) = Len(getElementsByTagName(pathXML, "Segment"))
  /\ \A k \in 1..Len(segments) :
       /\ segments[k].x2 =
            Str(Declared(getElementsByTagName(pathXML, "Segment")[k], "X"))
       /\ segments[k].y2 =
            Str(Declared(getElementsByTagName(pathXML, "Segment")[k], "Y"))
       /\ segments[k].x1 =
            (IF k = 1
             THEN Str(Declared(First(getElementsByTagName(pathXML, "Start")), "X"))
             ELSE segments[k - 1].x2)
       /\ segments[k].y1 =
            (IF k = 1
             THEN Str(Declared(First(getElementsByTagName(pathXML, "Start")), "Y"))
             ELSE segments[k - 1].y2)

\* every Path of the Layer src/src/index.ts returned for doc is chained
ChainedTs(out, doc) ==
  \A i \in 1..Len(out.trajectories) :
    \A j \in 1..Len(out.trajectories[i].paths) :
      Chained(out.trajectories[i].paths[j].segments,
              getElementsByTagName(
                getElementsByTagName(doc, "Trajectory")[i], "Path")[j])

\* the path of every trajectory of the Build src/alsam-xml.js returned for
\* doc (the first Path of the Trajectory) is chained
ChainedJs(out, doc) ==
  \A i \in 1..Len(out.trajectories) :
    getElementsByTagName(getElementsByTagName(doc, "Trajectory")[i], "Path")
      # <<>>
    => Chained(out.trajectories[i].path.segments,
               getElementsByTagName(
                 getElementsByTagName(doc, "Trajectory")[i], "Path")[1])

\* C2: in every Path LoadXML returns, segment 0 starts at the declared Start
\* point, every later segment starts where the one before ends, every segment
\* ends at the X/Y of its own Segment block, and the segments are in document
\* order.
C2_CursorChaining ==
  /\ (LoadedTs /\ loaded.ok) => ChainedTs(loaded.val, xmlDoc)
  /\ (LoadedJs /\ loaded.ok) => ChainedJs(loaded.val, xmlDoc)

\* C2: a Path of two Segments over three different points was decoded
C2_TwoSegmentsDecoded ==
  /\ LoadedTs
  /\ op = "LoadXML"
  /\ loaded.ok
  /\ Len(loaded.val.trajectories) = 1
  /\ Len(loaded.val.trajectories[1].paths) = 1
  /\ Len(loaded.val.trajectories[1].paths[1].segments) = 2
  /\ loaded.val.trajectories[1].paths[1].segments[1].x1 = Str(T.minus2)
  /\ loaded.val.trajectories[1].paths[1].segments[1].x2 = Str(T.n1_5)
  /\ loaded.val.trajectories[1].paths[1].segments[2].x1 = Str(T.n1_5)
  /\ loaded.val.trajectories[1].paths[1].segments[2].x2 = Str(T.n0)


(***************************************************************************)
(* C3: a missing mandatory field.                                          *)
(***************************************************************************)
\* the tags of the mandatory fields: of the header, of a VelocityProfile, of
\* a SegmentStyle, of a Traveler, of a Wobble, of a Trajectory, of a Path and
\* its Start, of a Segment
MandatoryTags ==
  { "AmericaMakesSchemaVersion", "LayerThickness",
    "ID", "Velocity", "Mode", "LaserOnDelay", "LaserOffDelay", "JumpDelay",
    "MarkDelay", "PolygonDelay",
    "VelocityProfileID", "Power",
    "On", "Freq", "Shape", "TransAmp", "LongAmp",
    "TrajectoryID", "PathProcessingMode",
    "Type", "Tag", "NumSegments", "SkyWritingMode", "X", "Y", "SegStyle" }

\* the places of the mandatory fields of the document doc
MandatoryPlaces(doc) ==
  {p \in LeafPlaces(doc) : NodeAt(doc, p).tag \in MandatoryTags}

\* the places of the fields of the Wobble block of doc
WobblePlaces(doc) ==
  {p \in LeafPlaces(doc) :
     NodeAt(doc, p).tag \in {"On", "Freq", "Shape", "TransAmp", "LongAmp"}}

\* doc without the field at place p, with the tag of that field and the
\* element it is a field of
MissingField(doc, p) ==
  [doc |-> RemoveAt(doc, p), tag |-> NodeAt(doc, p).tag,
   owner |-> NodeAt(doc, Take(p, Len(p) - 1))]

\* the documents valid but for one mandatory field that is missing
MissingFieldDocs ==
  {MissingField(BaseDoc, p) : p \in MandatoryPlaces(BaseDoc)}
    \cup {MissingField(WobbleDoc(T.n1, T.minus1), p) :
            p \in WobblePlaces(WobbleDoc(T.n1, T.minus1))}

\* C3: decoding a document that is valid except that one mandatory field is
\* missing fails with reason MissingMandatoryField naming that field.
C3_MissingMandatoryFieldFails ==
  (LoadedTs /\ op = "LoadXML") =>
    \A m \in MissingFieldDocs :
      xmlDoc = m.doc =>
        /\ ~loaded.ok
        /\ loaded.err.reason = "MissingMandatoryField"
        /\ loaded.err.field = m.tag

\* the part of C3 the code keeps: every mandatory field but the ID of a
\* SegmentStyle that has a Traveler, and the Power of a Traveler
C3_MissingFieldFailsButIDAndPower ==
  (LoadedTs /\ op = "LoadXML") =>
    \A m \in MissingFieldDocs :
      (/\ xmlDoc = m.doc
       /\ m.tag # "Power"
       /\ ~(/\ m.tag = "ID"
            /\ m.owner.tag = "SegmentStyle"
            /\ getElementsByTagName(m.owner, "Traveler") # <<>>)) =>
        /\ ~loaded.ok
        /\ loaded.err.reason = "MissingMandatoryField"
        /\ loaded.err.field = m.tag

\* C3: the document whose Traveler has no Power was decoded into a Layer
C3_MissingPowerDecoded ==
  /\ LoadedTs
  /\ \E m \in MissingFieldDocs : m.tag = "Power" /\ xmlDoc = m.doc
  /\ loaded.ok

(***************************************************************************)
(* C4, C5: LaserMode, required when the SegmentStyle has a Traveler.       *)
(***************************************************************************)
\* the SegmentStyle element style has a Traveler and no LaserMode tag
TravelerWithoutLaserMode(style) ==
  /\ getElementsByTagName(style, "Traveler") # <<>>
  /\ getElementsByTagName(style, "LaserMode") = <<>>

\* the SegmentStyle element style is a jump style: no Traveler, no LaserMode
\* tag, an ID and a VelocityProfileID
JumpStyle(style) ==
  /\ getElementsByTagName(style, "Traveler") = <<>>
  /\ getElementsByTagName(style, "LaserMode") = <<>>
  /\ Declared(style, "ID") # <<>>
  /\ Declared(style, "VelocityProfileID") # <<>>

\* C4: LoadXML of src/src/index.ts fails on a document with a SegmentStyle
\* that has at least one Traveler and no LaserMode tag: no Layer is returned.
C4_TravelerWithoutLaserModeFails ==
  (/\ LoadedTs
   /\ \E i \in 1..Len(getElementsByTagName(xmlDoc, "SegmentStyle")) :
        TravelerWithoutLaserMode(getElementsByTagName(xmlDoc, "SegmentStyle")[i]))
  => ~loaded.ok

\* C4: a Layer was returned whose SegmentStyle has a Traveler and no laserMode
C4_LayerWithoutLaserMode ==
  /\ LoadedTs
  /\ loaded.ok
  /\ \E i \in 1..Len(loaded.val.segmentStyles) :
       /\ loaded.val.segmentStyles[i].travelers # <<>>
       /\ loaded.val.segmentStyles[i].laserMode = Undefined

\* C5: a SegmentStyle with zero Travelers, a valid ID and VelocityProfileID
\* and no LaserMode tag decodes: decoding never fails at it, and the decoded
\* style has laserMode absent and an empty traveler list.
C5_JumpStyleDecodes ==
  LoadedTs =>
    \A i \in 1..Len(getElementsByTagName(xmlDoc, "SegmentStyle")) :
      JumpStyle(getElementsByTagName(xmlDoc, "SegmentStyle")[i]) =>
        IF loaded.ok
        THEN /\ loaded.val.segmentStyles[i].laserMode = Undefined
             /\ loaded.val.segmentStyles[i].travelers = <<>>
        ELSE ~(loaded.err.stage = "getSegmentStyles" /\ loaded.err.at[1] = i)

\* C5: the valid document, whose first SegmentStyle is a jump style, decoded
C5_JumpStyleDecoded ==
  /\ LoadedTs
  /\ xmlDoc = BaseDoc
  /\ JumpStyle(getElementsByTagName(xmlDoc, "SegmentStyle")[1])
  /\ loaded.ok
  /\ loaded.val.segmentStyles[1].laserMode = Undefined
  /\ loaded.val.segmentStyles[1].travelers = <<>>


(***************************************************************************)
(* C6: the Mode of a VelocityProfile.                                      *)
(***************************************************************************)
\* a LoadXML call of either module has returned or thrown
Loaded == LoadedTs \/ LoadedJs

\* the Mode of every VelocityProfile of doc is exactly "Delay" or "Auto"
ModesDelayOrAuto(doc) ==
  \A i \in 1..Len(getElementsByTagName(doc, "VelocityProfile")) :
    Declared(getElementsByTagName(doc, "VelocityProfile")[i], "Mode")
      \in {<<"D", "e", "l", "a", "y">>, <<"A", "u", "t", "o">>}

\* the place of the Mode of the VelocityProfile of the valid document
ModePlace ==
  CHOOSE p \in LeafPlaces(BaseDoc) : NodeAt(BaseDoc, p).tag = "Mode"

\* C6: decoding succeeds only if the Mode of every VelocityProfile is exactly
\* "Delay" or "Auto" (any other text, "Fast" for one, fails the whole decode),
\* a Mode that is "Delay" or "Auto" is never what decoding fails on, and the
\* document whose other fields are valid decodes with either.
C6_ModeDelayOrAuto ==
  Loaded =>
    /\ loaded.ok => ModesDelayOrAuto(xmlDoc)
    /\ (~loaded.ok /\ ModesDelayOrAuto(xmlDoc)) =>
         ~(loaded.err.field = "Mode"
           /\ loaded.err.stage = "getVelocityProfiles")
    /\ \A mode \in {<<"D", "e", "l", "a", "y">>, <<"A", "u", "t", "o">>} :
         xmlDoc = SetTextAt(BaseDoc, ModePlace, mode) => loaded.ok

\* C6: the valid document with Mode "Auto" was decoded by src/src/index.ts
C6_AutoDecoded ==
  /\ LoadedTs
  /\ xmlDoc = SetTextAt(BaseDoc, ModePlace, <<"A", "u", "t", "o">>)
  /\ loaded.ok
  /\ loaded.val.velocityProfiles[1].mode = Str(<<"A", "u", "t", "o">>)

\* the valid document with Mode "Fast" was refused by both modules
C6_FastRefused ==
  /\ Loaded
  /\ xmlDoc = SetTextAt(BaseDoc, ModePlace, <<"F", "a", "s", "t">>)
  /\ ~loaded.ok
  /\ loaded.err.reason = "InvalidEnumValue"
  /\ loaded.err.field = "Mode"

(***************************************************************************)
(* C7: the format of AmericaMakesSchemaVersion.                            *)
(***************************************************************************)
\* four digits, a hyphen, two digits, a hyphen, two digits, and nothing else
DateShaped(text) ==
  /\ Len(text) = 10
  /\ text[5] = "-"
  /\ text[8] = "-"
  /\ \A i \in {1, 2, 3, 4, 6, 7, 9, 10} :
       text[i] \in {"0", "1", "2", "3", "4", "5", "6", "7", "8", "9"}

\* C7: decoding succeeds only if AmericaMakesSchemaVersion is four digits, a
\* hyphen, two digits, a hyphen and two digits ("2020-3-23" fails), and a
\* text of that form ("2020-03-23") is never what decoding fails on.
C7_DateFormat ==
  Loaded =>
    /\ loaded.ok => DateShaped(Declared(xmlDoc, "AmericaMakesSchemaVersion"))
    /\ (~loaded.ok /\ DateShaped(Declared(xmlDoc, "AmericaMakesSchemaVersion")))
         => loaded.err.field # "AmericaMakesSchemaVersion"
    /\ xmlDoc = BaseDoc => loaded.ok

\* the place of AmericaMakesSchemaVersion in the valid document
DatePlace ==
  CHOOSE p \in LeafPlaces(BaseDoc) :
    NodeAt(BaseDoc, p).tag = "AmericaMakesSchemaVersion"

\* C7: the valid document with the date "2020-3-23" was refused for its date
C7_UnpaddedDateRefused ==
  /\ Loaded
  /\ xmlDoc = SetTextAt(BaseDoc, DatePlace,
                        <<"2", "0", "2", "0", "-", "3", "-", "2", "3">>)
  /\ ~loaded.ok
  /\ loaded.err.reason = "MalformedDate"
  /\ loaded.err.field = "AmericaMakesSchemaVersion"

(***************************************************************************)
(* C8: the bound on LayerThickness.                                        *)
(***************************************************************************)
\* the text starts with a number greater than zero
PositiveFloat(text) == Gt(parseFloat(text), 0)

\* C8: decoding succeeds only if LayerThickness is a float strictly greater
\* than zero: negative values and zero both fail.
C8_LayerThicknessPositive ==
  (Loaded /\ loaded.ok) => PositiveFloat(Declared(xmlDoc, "LayerThickness"))

\* the part of C8 src/src/index.ts keeps
C8_LayerThicknessPositiveTs ==
  (LoadedTs /\ loaded.ok) => PositiveFloat(Declared(xmlDoc, "LayerThickness"))

\* C8: src/alsam-xml.js decoded a document whose LayerThickness is "0"
C8_ZeroThicknessDecoded ==
  /\ LoadedJs
  /\ Declared(xmlDoc, "LayerThickness") = <<"0">>
  /\ loaded.ok

(***************************************************************************)
(* C9: all or nothing.                                                     *)
(***************************************************************************)
\* every rule of the schema holds in the Layer out
RulesHold(out) ==
  /\ DateShaped(out.header.americaMakesSchemaVersion.s)
  /\ Gt(out.header.layerThickness, 0)
  /\ \A i \in 1..Len(out.velocityProfiles) :
       /\ Gt(out.velocityProfiles[i].velocity, 0)
       /\ out.velocityProfiles[i].mode.s
            \in {<<"D", "e", "l", "a", "y">>, <<"A", "u", "t", "o">>}
  /\ \A i \in 1..Len(out.segmentStyles) :
       out.segmentStyles[i].travelers # <<>> =>
         out.segmentStyles[i].laserMode.s \in {T.Independent, T.FollowMe}
  /\ \A i \in 1..Len(out.trajectories) :
       /\ out.trajectories[i].pathProcessingMode.s
            \in {T.sequential, T.concurrent}
       /\ \A j \in 1..Len(out.trajectories[i].paths) :
            /\ out.trajectories[i].paths[j].type.s \in {T.hatch, T.contour}
            /\ Ge(out.trajectories[i].paths[j].skyWritingMode, 0)
            /\ Le(out.trajectories[i].paths[j].skyWritingMode, 3 * Scale)

\* C9: LoadXML either returns a complete Layer in which every schema rule
\* holds or it fails and returns no Layer at all, partial or not.
C9_AllOrNothing ==
  LoadedTs =>
    IF loaded.ok THEN RulesHold(loaded.val) ELSE loaded.val = Undefined

\* the part of C9 the code keeps: a call that throws returns nothing, and a
\* Layer it returns has its four parts
C9_NoPartialLayer ==
  LoadedTs =>
    IF loaded.ok
    THEN DOMAIN loaded.val
           = {"header", "segmentStyles", "velocityProfiles", "trajectories"}
    ELSE loaded.val = Undefined

\* C9: a Layer was returned that breaks a rule of the schema
C9_RuleBrokenInLayer == LoadedTs /\ loaded.ok /\ ~RulesHold(loaded.val)

(***************************************************************************)
(* C10: a valid Wobble block.                                              *)
(***************************************************************************)
\* the wobble w is present and holds the values of WobbleXML(on, shape)
WobbleHolds(w, on, shape) ==
  /\ DOMAIN w = {"on", "freq", "shape", "transAmp", "longAmp"}
  /\ SameValue(w.on, Str(on))
  /\ SameValue(w.freq, Str(T.n900))
  /\ SameValue(w.shape, Str(shape))
  /\ SameValue(w.transAmp, Str(T.half))
  /\ SameValue(w.longAmp, Str(T.half))

\* C10: a Traveler with a Wobble block whose five fields are present and
\* valid decodes, for each Shape of -1, 0, 1 and each On of 0, 1, and the
\* wobble of the decoded Traveler is present and holds the five values.
C10_ValidWobbleDecodes ==
  LoadedTs =>
    \A on \in {<<"0">>, <<"1">>} :
      \A shape \in {<<"-", "1">>, <<"0">>, <<"1">>} :
        xmlDoc = WobbleDoc(on, shape) =>
          /\ loaded.ok
          /\ WobbleHolds(loaded.val.segmentStyles[2].travelers[1].wobble,
                         on, shape)

\* C10: the document whose Wobble has On 1 and Shape 0 was refused
C10_ValidWobbleRefused ==
  /\ LoadedTs
  /\ xmlDoc = WobbleDoc(<<"1">>, <<"0">>)
  /\ ~loaded.ok
  /\ loaded.err.stage = "getSegmentStyles"


(***************************************************************************)
(* C11: the order of the blocks ExportXML writes.                          *)
(***************************************************************************)
\* the tags of the child elements of node, in document order
KidTags(node) == [i \in 1..Len(node.kids) |-> node.kids[i].tag]

\* C11: the text ExportXML of src/src/index.ts returns holds one root Layer
\* element and, inside it and in this order, exactly one header block, the
\* segment-style list, the velocity-profile list and the trajectory list.
C11_BlockOrder ==
  (impl = "ts" /\ exported.ok) =>
    /\ KidTags(exported.val) = <<"Layer">>
    /\ KidTags(exported.val.kids[1])
         = <<"Header", "SegmentStyleList", "VelocityProfileList",
             "TrajectoryList">>
    /\ Len(getElementsByTagName(exported.val, "Header")) = 1

\* C11: ExportXML returned the text of a Layer that has a segment style with
\* a Traveler, a velocity profile and a trajectory
C11_FourBlocksExported ==
  /\ op = "ExportXML"
  /\ impl = "ts"
  /\ exported.ok
  /\ Len(getElementsByTagName(exported.val, "Traveler")) = 1
  /\ Len(getElementsByTagName(exported.val, "VelocityProfile")) = 1
  /\ Len(getElementsByTagName(exported.val, "Segment")) = 2


(***************************************************************************)
(* C12: the Start block and the Segment blocks of a Path.                  *)
(***************************************************************************)
\* the Segment block segmentXML carries the end point, the style and the
\* optional ID of the segment seg, and nothing else
SegmentBlock(segmentXML, seg) ==
  /\ KidTags(segmentXML)
       = (IF NotNullish(seg.segmentID) THEN <<"SegmentID">> ELSE <<>>)
           \o <<"SegStyle", "End">>
  /\ NotNullish(seg.segmentID) =>
       Declared(segmentXML, "SegmentID") = TemplateString(seg.segmentID)
  /\ Declared(segmentXML, "SegStyle") = TemplateString(seg.segStyle)
  /\ KidTags(First(getElementsByTagName(segmentXML, "End"))) = <<"X", "Y">>
  /\ Declared(segmentXML, "X") = TemplateString(seg.x2)
  /\ Declared(segmentXML, "Y") = TemplateString(seg.y2)

\* the Path block pathXML holds one Start block, then one Segment block per
\* segment of the path pth, in order
PathBlock(pathXML, pth) ==
  /\ KidTags(pathXML)
       = <<"Type", "Tag", "NumSegments", "SkyWritingMode", "Start">>
           \o [k \in 1..Len(pth.segments) |-> "Segment"]
  /\ \A k \in 1..Len(pth.segments) :
       SegmentBlock(getElementsByTagName(pathXML, "Segment")[k],
                    pth.segments[k])

\* the Path blocks of the document doc are those of the paths of the Layer
\* lay that satisfy Holds, each written as PathBlock says
PathBlocks(doc, lay, Holds(_)) ==
  /\ Len(getElementsByTagName(doc, "Trajectory")) = Len(lay.trajectories)
  /\ \A i \in 1..Len(lay.trajectories) :
       /\ Len(getElementsByTagName(
                getElementsByTagName(doc, "Trajectory")[i], "Path"))
            = Len(lay.trajectories[i].paths)
       /\ \A j \in 1..Len(lay.trajectories[i].paths) :
            Holds(lay.trajectories[i].paths[j]) =>
              PathBlock(getElementsByTagName(
                          getElementsByTagName(doc, "Trajectory")[i],
                          "Path")[j],
                        lay.trajectories[i].paths[j])

AnyPath(pth) == TRUE

HasSegments(pth) == Len(pth.segments) > 0

\* C12: for every Path of the Layer, whatever its numSegments (0 included),
\* ExportXML of src/src/index.ts writes exactly one Start block, then one
\* Segment block per element of path.segments in order, each with only the
\* (x2, y2), the style and the optional ID of its segment, never x1/y1.
C12_StartThenSegments ==
  (op = "ExportXML" /\ impl = "ts" /\ exported.ok) =>
    PathBlocks(exported.val, layer, AnyPath)

\* the part of C12 the code keeps: the paths that have a segment
C12_StartThenSegmentsIfAny ==
  (op = "ExportXML" /\ impl = "ts" /\ exported.ok) =>
    PathBlocks(exported.val, layer, HasSegments)

\* C12: a Layer whose Path has numSegments 0 was exported and its Path block
\* holds no Start block
C12_EmptyPathWithoutStart ==
  /\ op = "ExportXML"
  /\ impl = "ts"
  /\ exported.ok
  /\ Len(layer.trajectories) = 1
  /\ Len(layer.trajectories[1].paths) = 1
  /\ layer.trajectories[1].paths[1].numSegments = Int2Num(0)
  /\ getElementsByTagName(exported.val, "Path") # <<>>
  /\ getElementsByTagName(exported.val, "Start") = <<>>


(***************************************************************************)
(* C13: ExportXML on the Layers the data model allows.                     *)
(***************************************************************************)
\* the invariant of the data model the encoder leans on: the declared segment
\* count of every path of the Layer lay is the length of its segments
NumSegmentsHold(lay) ==
  \A i \in 1..Len(lay.trajectories) :
    \A j \in 1..Len(lay.trajectories[i].paths) :
      lay.trajectories[i].paths[j].numSegments
        = Int2Num(Len(lay.trajectories[i].paths[j].segments))

\* C13: ExportXML of src/src/index.ts returns text and does not throw for
\* every Layer whose paths declare the number of segments they hold, Layers
\* with no trajectories, trajectories with no paths, paths with no segments
\* and styles with no travelers included.
C13_EncoderTotal ==
  (op \in {"ExportXML", "Reload"} /\ impl = "ts" /\ NumSegmentsHold(layer))
    => exported.ok

\* C13: a Layer whose trajectory has no paths, and one of whose styles has no
\* travelers, was exported
C13_NoPathsExported ==
  /\ op = "ExportXML"
  /\ impl = "ts"
  /\ exported.ok
  /\ Len(layer.trajectories) = 1
  /\ layer.trajectories[1].paths = <<>>
  /\ \E i \in 1..Len(layer.segmentStyles) :
       layer.segmentStyles[i].travelers = <<>>

\* a Layer with no trajectories, no styles and no profiles was exported
C13_EmptyListsExported ==
  /\ op = "ExportXML"
  /\ impl = "ts"
  /\ exported.ok
  /\ layer.trajectories = <<>>
  /\ layer.segmentStyles = <<>>
  /\ layer.velocityProfiles = <<>>

\* a Layer whose path declares a segment and holds none made ExportXML throw
C13_MiscountedPathThrows ==
  /\ op = "ExportXML"
  /\ impl = "ts"
  /\ ~exported.ok
  /\ exported.err.kind = "TypeError"
  /\ ~NumSegmentsHold(layer)


(***************************************************************************)
(* C14: ExportXML of src/alsam-xml.js and the trajectories of the Build.   *)
(***************************************************************************)
\* C14: the text ExportXML of src/alsam-xml.js returns holds every trajectory
\* of the Build, and LoadXML of that text yields the same trajectories.
C14_ExportHoldsTrajectories ==
  /\ (op \in {"ExportXML", "Reload"} /\ impl = "js") =>
       /\ exported.ok
       /\ Len(getElementsByTagName(exported.val, "Trajectory"))
            = Len(layer.trajectories)
  /\ (op = "Reload" /\ impl = "js") =>
       loaded.ok /\ loaded.val.trajectories = layer.trajectories

\* C14: a Build with a trajectory of two segments was exported, the text holds
\* no Trajectory element and its reload has no trajectories
C14_TrajectoriesDropped ==
  /\ op = "Reload"
  /\ impl = "js"
  /\ Len(layer.trajectories) = 1
  /\ "segments" \in DOMAIN layer.trajectories[1].path
  /\ Len(layer.trajectories[1].path.segments) = 2
  /\ getElementsByTagName(exported.val, "Trajectory") = <<>>
  /\ loaded.ok
  /\ loaded.val.trajectories = <<>>

\* what the code keeps of a Build: the header, the styles and the profiles of
\* the reload are those of the Build
C14_RestReloads ==
  (op = "Reload" /\ impl = "js") =>
    /\ loaded.ok
    /\ loaded.val.header = layer.header
    /\ loaded.val.segmentStyles = layer.segmentStyles
    /\ loaded.val.velocityProfiles = layer.velocityProfiles


(***************************************************************************)
(* C15: the IDs of the velocity profiles and of the segment styles.        *)
(***************************************************************************)
\* no two elements of the sequence objects carry the same ID
UniqueByID(objects) ==
  \A i, j \in 1..Len(objects) : objects[i].ID = objects[j].ID => i = j

\* C15: in every Layer LoadXML of src/src/index.ts returns, no two velocity
\* profiles share an ID and no two segment styles share an ID.
C15_UniqueByID ==
  (LoadedTs /\ loaded.ok) =>
    /\ UniqueByID(loaded.val.velocityProfiles)
    /\ UniqueByID(loaded.val.segmentStyles)

\* C15: a document with two VelocityProfile elements of one ID was decoded,
\* and the Layer holds two velocity profiles of that ID
C15_TwoProfilesOfOneID ==
  /\ LoadedTs
  /\ loaded.ok
  /\ Len(getElementsByTagName(xmlDoc, "VelocityProfile")) = 2
  /\ Len(loaded.val.velocityProfiles) = 2
  /\ loaded.val.velocityProfiles[1].ID = loaded.val.velocityProfiles[2].ID

\* what the code keeps: one velocity profile per VelocityProfile element and
\* one segment style per SegmentStyle element
C15_OnePerElement ==
  (LoadedTs /\ loaded.ok) =>
    /\ Len(loaded.val.velocityProfiles)
         = Len(getElementsByTagName(xmlDoc, "VelocityProfile"))
    /\ Len(loaded.val.segmentStyles)
         = Len(getElementsByTagName(xmlDoc, "SegmentStyle"))


(***************************************************************************)
(* C16: the order of the trajectories and of their paths.                  *)
(***************************************************************************)
\* the paths a decoded trajectory holds: its list of paths in
\* src/src/index.ts; its one path, if any, in src/alsam-xml.js
PathsHeld(trajectory) ==
  IF "paths" \in DOMAIN trajectory THEN trajectory.paths
  ELSE IF trajectory.path = Null THEN <<>>
  ELSE <<trajectory.path>>

\* the trajectories out are those of the Trajectory elements of doc, in
\* document order, each with one path per Path element, in document order
InDocumentOrder(out, doc) ==
  /\ Len(out) = Len(getElementsByTagName(doc, "Trajectory"))
  /\ \A i \in 1..Len(out) :
       /\ out[i].trajectoryID
            = Str(Declared(getElementsByTagName(doc, "Trajectory")[i],
                           "TrajectoryID"))
       /\ Len(PathsHeld(out[i]))
            = Len(getElementsByTagName(
                    getElementsByTagName(doc, "Trajectory")[i], "Path"))
       /\ \A j \in 1..Len(PathsHeld(out[i])) :
            Chained(PathsHeld(out[i])[j].segments,
                    getElementsByTagName(
                      getElementsByTagName(doc, "Trajectory")[i], "Path")[j])

\* C16: the trajectories LoadXML returns are in the document order of the
\* Trajectory elements, and each holds one Path per Path element, all of
\* them, in document order; in src/src/index.ts and in src/alsam-xml.js.
C16_OrderPreserved ==
  (Loaded /\ loaded.ok) => InDocumentOrder(loaded.val.trajectories, xmlDoc)

\* the part of C16 the code keeps: the Layer src/src/index.ts returns, and
\* the Build src/alsam-xml.js returns when no Trajectory has a second Path
C16_OrderPreservedUpToOnePath ==
  (/\ Loaded
   /\ loaded.ok
   /\ LoadedJs =>
        \A i \in 1..Len(getElementsByTagName(xmlDoc, "Trajectory")) :
          Len(getElementsByTagName(
                getElementsByTagName(xmlDoc, "Trajectory")[i], "Path")) <= 1)
  => InDocumentOrder(loaded.val.trajectories, xmlDoc)

\* C16: src/alsam-xml.js decoded a document whose first Trajectory has two
\* Path elements, and the trajectory it returned holds the first Path alone
C16_SecondPathDropped ==
  /\ LoadedJs
  /\ loaded.ok
  /\ Len(getElementsByTagName(
           First(getElementsByTagName(xmlDoc, "Trajectory")), "Path")) = 2
  /\ Len(PathsHeld(loaded.val.trajectories[1])) = 1
  /\ Chained(loaded.val.trajectories[1].path.segments,
             getElementsByTagName(xmlDoc, "Path")[1])

\* src/src/index.ts decoded two trajectories, of two paths and of one
C16_TwoTrajectoriesDecoded ==
  /\ LoadedTs
  /\ loaded.ok
  /\ Len(loaded.val.trajectories) = 2
  /\ Len(loaded.val.trajectories[1].paths) = 2
  /\ Len(loaded.val.trajectories[2].paths) = 1
  /\ loaded.val.trajectories[1].trajectoryID
       # loaded.val.trajectories[2].trajectoryID


(***************************************************************************)
(* C17: the kind of the failures of LoadXML.                               *)
(***************************************************************************)
\* the failure is one the decoder raises itself, by an assertion whose
\* message names the field, and carries a reason
SchemaViolation(err) ==
  err.kind = "AssertionError" /\ err.field # "none" /\ err.reason # "none"

\* every Path element of doc has a Start block
EveryPathHasStart(doc) ==
  \A i \in 1..Len(getElementsByTagName(doc, "Path")) :
    getElementsByTagName(getElementsByTagName(doc, "Path")[i], "Start") # <<>>

\* C17: every failure of LoadXML of src/src/index.ts is a schema violation
\* that carries the offending field and a reason, the failure on a Path with
\* no Start block and on a Start block without X or Y included.
C17_SingleErrorKind ==
  (LoadedTs /\ ~loaded.ok) => SchemaViolation(loaded.err)

\* the part of C17 the code keeps: the failures on documents whose Paths all
\* have a Start block
C17_SingleErrorKindWithStart ==
  (LoadedTs /\ ~loaded.ok /\ EveryPathHasStart(xmlDoc))
    => SchemaViolation(loaded.err)

\* C17: the document whose Path has no Start block made LoadXML fail with a
\* TypeError, raised by the read of X on an undefined node
C17_NoStartIsTypeError ==
  /\ LoadedTs
  /\ ~loaded.ok
  /\ getElementsByTagName(xmlDoc, "Path") # <<>>
  /\ ~EveryPathHasStart(xmlDoc)
  /\ loaded.err.kind = "TypeError"
  /\ loaded.err.stage = "getTrajectories"

\* a Start block without X made LoadXML fail with a schema violation on X
C17_StartWithoutXRefused ==
  /\ LoadedTs
  /\ ~loaded.ok
  /\ EveryPathHasStart(xmlDoc)
  /\ getElementsByTagName(First(getElementsByTagName(xmlDoc, "Start")), "X")
       = <<>>
  /\ SchemaViolation(loaded.err)
  /\ loaded.err.field = "X"
  /\ loaded.err.stage = "getTrajectories"


(***************************************************************************)
(* C18: the order of the four blocks under the root.                       *)
(***************************************************************************)
RootBlocks ==
  <<"Header", "VelocityProfileList", "SegmentStyleList", "TrajectoryList">>

\* the root of doc holds the four blocks, one of each, in some order
HasFourBlocks(doc) ==
  /\ Len(doc.kids) = 1
  /\ Len(doc.kids[1].kids) = 4
  /\ \A i \in 1..4 : \E k \in 1..4 : doc.kids[1].kids[k].tag = RootBlocks[i]

\* doc with its four blocks in the order of RootBlocks
InRootBlocksOrder(doc) ==
  [doc EXCEPT !.kids[1].kids =
     [i \in 1..4 |-> @[CHOOSE k \in 1..4 : @[k].tag = RootBlocks[i]]]]

\* C18: for a document whose root holds one header block, a velocity-profile
\* list, a segment-style list and a trajectory list, what LoadXML of
\* src/src/index.ts returns or throws is what it returns or throws for the
\* same blocks in the order header, profiles, styles, trajectories: the same
\* for every order of the blocks.
C18_BlockOrderIndependent ==
  (LoadedTs /\ HasFourBlocks(xmlDoc)) =>
    loaded = LoadXML(InRootBlocksOrder(xmlDoc))

\* C18: a valid document with its trajectory list first and its header last
\* was decoded
C18_HeaderLastDecoded ==
  /\ LoadedTs
  /\ op = "LoadXML"
  /\ HasFourBlocks(xmlDoc)
  /\ KidTags(xmlDoc.kids[1])[1] = "TrajectoryList"
  /\ KidTags(xmlDoc.kids[1])[4] = "Header"
  /\ loaded.ok
  /\ Len(loaded.val.trajectories) = 2

\* a document that breaks a rule, with its header last, was refused
C18_HeaderLastRefused ==
  /\ LoadedTs
  /\ op = "LoadXML"
  /\ HasFourBlocks(xmlDoc)
  /\ KidTags(xmlDoc.kids[1])[4] = "Header"
  /\ ~loaded.ok
  /\ loaded.err.stage = "getVelocityProfiles"


StageOutcome(doc, stage) ==
  InStage(CASE stage = "getHeader" -> getHeader(doc)
            [] stage = "getSegmentStyles" -> getSegmentStyles(doc)
            [] stage = "getVelocityProfiles" -> getVelocityProfiles(doc)
            [] stage = "getTrajectories" -> getTrajectories(doc),
          stage)

\* the failure reported for doc is that of the first of stages that fails
\* on doc
ReportsFirstOf(stages, doc, reported) ==
  \A i \in 1..Len(stages) :
    (/\ ~StageOutcome(doc, stages[i]).ok
     /\ \A k \in 1..(i - 1) : StageOutcome(doc, stages[k]).ok)
    => reported = StageOutcome(doc, stages[i])

\* C20 as the code has it: the failure LoadXML of src/src/index.ts reports is
\* that of the first violated rule in the order header, segment styles,
\* velocity profiles, trajectories: for a document with an invalid
\* VelocityProfile and an invalid SegmentStyle, the SegmentStyle one.
C20_ValidationOrder ==
  (LoadedTs /\ ~loaded.ok) =>
    ReportsFirstOf(<<"getHeader", "getSegmentStyles", "getVelocityProfiles",
                     "getTrajectories">>, xmlDoc, loaded)

\* C20 as stated: the failure reported is that of the first violated rule in
\* the order header, velocity profiles, segment styles, trajectories: for a
\* document with an invalid VelocityProfile and an invalid SegmentStyle, the
\* VelocityProfile one.
C20_ValidationOrderAsStated ==
  (LoadedTs /\ ~loaded.ok) =>
    ReportsFirstOf(<<"getHeader", "getVelocityProfiles", "getSegmentStyles",
                     "getTrajectories">>, xmlDoc, loaded)

\* C20: a document with a valid header, a VelocityProfile of a Mode that is
\* not allowed and a SegmentStyle whose Traveler ID is no integer was
\* refused, and the failure reported is that of the SegmentStyle
C20_StyleReportedBeforeProfile ==
  /\ LoadedTs
  /\ ~loaded.ok
  /\ StageOutcome(xmlDoc, "getHeader").ok
  /\ ~StageOutcome(xmlDoc, "getVelocityProfiles").ok
  /\ ~StageOutcome(xmlDoc, "getSegmentStyles").ok
  /\ loaded.err.stage = "getSegmentStyles"
  /\ loaded = StageOutcome(xmlDoc, "getSegmentStyles")


(***************************************************************************)
(* C21: the texts the integer accessors accept.                            *)
(***************************************************************************)
\* text without its leading sign, if it has one
Unsigned(text) ==
  IF text # <<>> /\ text[1] \in {"+", "-"} THEN Drop(text, 1) ELSE text

\* an optional sign, then one or more digits
IntegerForm(text) == Unsigned(text) # <<>> /\ AllDigits(Unsigned(text))

\* the leaf elements of the valid document read by an integer accessor
IntegerPlaces ==
  {p \in LeafPlaces(BaseDoc) :
     NodeAt(BaseDoc, p).tag
       \in {"LayerNum", "SyncDelay", "NumSegments", "SkyWritingMode"}}

\* LoadXML of src/src/index.ts was called on the valid document with the
\* text of the leaf at place replaced by text
Retexted(place, text) ==
  /\ LoadedTs
  /\ op = "LoadXML"
  /\ xmlDoc = SetTextAt(BaseDoc, place, text)

\* the accessor of the leaf at place refused its text
AccessorRefused(place) ==
  /\ ~loaded.ok
  /\ loaded.err.reason = "TypeMismatch"
  /\ loaded.err.field = NodeAt(BaseDoc, place).tag

\* C21: the integer accessors accept a non-empty text exactly when it is an
\* optional sign followed by one or more digits: "-1" and "+3" are accepted,
\* "1.0", "1." and texts with a non-digit character are refused.
C21_IntegerForm ==
  \A p \in IntegerPlaces : \A t \in Lexicon \ {<<>>} :
    Retexted(p, t) => (~AccessorRefused(p) <=> IntegerForm(t))

\* what the code does: a non-empty text is accepted exactly when it is all
\* digits, which /^[0-9]*$/ says
C21_DigitsOnly ==
  \A p \in IntegerPlaces : \A t \in Lexicon \ {<<>>} :
    Retexted(p, t) => (~AccessorRefused(p) <=> AllDigits(t))

\* C21: LayerNum "-1" was refused by the optional integer accessor
C21_MinusOneRefused ==
  \E p \in IntegerPlaces :
    /\ NodeAt(BaseDoc, p).tag = "LayerNum"
    /\ Retexted(p, <<"-", "1">>)
    /\ AccessorRefused(p)


(***************************************************************************)
(* C22: the texts the float accessors accept.                              *)
(***************************************************************************)
\* an optional sign, then digits, then optionally one decimal point followed
\* by digits
FloatForm(text) ==
  \/ IntegerForm(text)
  \/ \E k \in 2..(Len(Unsigned(text)) - 1) :
       /\ Unsigned(text)[k] = "."
       /\ AllDigits(Take(Unsigned(text), k - 1))
       /\ AllDigits(Drop(Unsigned(text), k))

\* the leaf elements of the valid document read by a float accessor
FloatPlaces ==
  {p \in LeafPlaces(BaseDoc) :
     NodeAt(BaseDoc, p).tag
       \in {"LayerThickness", "Velocity", "LaserOnDelay", "LaserOffDelay",
            "JumpDelay", "MarkDelay", "PolygonDelay", "Power", "SpotSize",
            "X", "Y"}}

\* C22: the float accessors accept a non-empty text exactly when it is an
\* optional sign, then digits, then optionally a single decimal point
\* followed by digits: every integer literal is accepted, and a text with two
\* decimal points or with no digit before the decimal point is refused.
C22_FloatForm ==
  \A p \in FloatPlaces : \A t \in Lexicon \ {<<>>} :
    Retexted(p, t) => (~AccessorRefused(p) <=> FloatForm(t))

\* an optional sign, then a decimal point followed by digits
PointFirstForm(text) ==
  /\ Len(Unsigned(text)) >= 2
  /\ Unsigned(text)[1] = "."
  /\ AllDigits(Drop(Unsigned(text), 1))

\* C22 as the code has it: the float accessors accept a non-empty text
\* exactly when it is an optional sign, then optionally digits and a decimal
\* point, then one or more digits; every integer literal is accepted, a text
\* with two decimal points or with no digit after the point is refused, and
\* a text with no digit before the point, such as ".5", is accepted.
C22_FloatRegex ==
  \A p \in FloatPlaces : \A t \in Lexicon \ {<<>>} :
    Retexted(p, t) =>
      /\ ~AccessorRefused(p) <=> (FloatForm(t) \/ PointFirstForm(t))
      /\ IntegerForm(t) => ~AccessorRefused(p)

\* C22: LayerThickness ".5", which has no digit before its decimal point,
\* was accepted and the document decoded
C22_PointFiveAccepted ==
  \E p \in FloatPlaces :
    /\ NodeAt(BaseDoc, p).tag = "LayerThickness"
    /\ Retexted(p, <<".", "5">>)
    /\ loaded.ok


(***************************************************************************)
(* C23: the optional accessor on integer and float fields.                 *)
(***************************************************************************)
\* the optional numeric fields of the header and of a Traveler:
\* <<property, tag, kind>>
OptionalHeaderFields ==
  { <<"layerNum", "LayerNum", "integer">>,
    <<"absoluteHeight", "AbsoluteHeight", "float">>,
    <<"dosingFactor", "DosingFactor", "float">> }

OptionalTravelerFields ==
  { <<"syncDelay", "SyncDelay", "integer">>,
    <<"power", "Power", "float">>,
    <<"spotSize", "SpotSize", "float">> }

\* text is not of the lexical form of kind, as the accessors test it
Malformed(text, kind) ==
  IF kind = "integer" THEN ~AllDigits(text)
  ELSE ~(FloatForm(text) \/ PointFirstForm(text))

\* value is what the optional accessor makes of the elements of tag f[2]
\* inside node: absent when there is none, and the number of the text, not
\* absent, when the text of the first denotes zero
OptionalRead(value, node, f) ==
  /\ getElementsByTagName(node, f[2]) = <<>> => value = Undefined
  /\ Declared(node, f[2]) \in {<<"0">>, <<"0", ".", "0">>} =>
       NotNullish(value) /\ ToNumber(value) = Int2Num(0)

C23_AbsentLayerNumDecoded ==
  /\ LoadedTs
  /\ getElementsByTagName(xmlDoc, "LayerNum") = <<>>
  /\ loaded.ok
  /\ loaded.val.header.layerNum = Undefined

\* the valid document with LayerNum "abc" was refused
C23_MalformedLayerNumRefused ==
  /\ LoadedTs
  /\ Declared(xmlDoc, "LayerNum") = <<"a", "b", "c">>
  /\ ~loaded.ok
  /\ loaded.err.field = "LayerNum"


(***************************************************************************)
(* C24: what the accessors of kind integer and float return.               *)
(***************************************************************************)
\* C24: the value of a field of kind integer or float in the Layer LoadXML of
\* src/src/index.ts returns is the number its text denotes, not the text:
\* the documents that write a float field as "1.5" and as "1.50" decode to
\* equal Layers.
C24_Coercion ==
  (LoadedTs /\ op = "LoadXML" /\ loaded.ok) =>
    /\ loaded.val.header.layerThickness.t = "number"
    /\ \A p \in FloatPlaces :
         xmlDoc = SetTextAt(BaseDoc, p, <<"1", ".", "5", "0">>) =>
           loaded = LoadXML(SetTextAt(BaseDoc, p, <<"1", ".", "5">>))

\* what the code does: the value stored is the text of the element
C24_TextStored ==
  (LoadedTs /\ loaded.ok) =>
    /\ loaded.val.header.layerThickness
         = Str(Declared(xmlDoc, "LayerThickness"))
    /\ Declared(xmlDoc, "LayerNum") # <<>> =>
         loaded.val.header.layerNum = Str(Declared(xmlDoc, "LayerNum"))

\* C24: LayerThickness "1.50" was decoded, and the Layer holds the text
\* "1.50", which is not what it holds for "1.5"
C24_TrailingZeroKept ==
  /\ LoadedTs
  /\ op = "LoadXML"
  /\ loaded.ok
  /\ Declared(xmlDoc, "LayerThickness") = <<"1", ".", "5", "0">>
  /\ loaded.val.header.layerThickness = Str(<<"1", ".", "5", "0">>)
  /\ \E p \in FloatPlaces :
       /\ xmlDoc = SetTextAt(BaseDoc, p, <<"1", ".", "5", "0">>)
       /\ LoadXML(SetTextAt(BaseDoc, p, <<"1", ".", "5">>)).ok
       /\ loaded # LoadXML(SetTextAt(BaseDoc, p, <<"1", ".", "5">>))


(***************************************************************************)
(* C25: the declared segment count of a decoded Path.                      *)
(***************************************************************************)
\* C25: in every Layer LoadXML of src/src/index.ts returns, the numSegments
\* of each Path is the number of segments of that Path: a document whose
\* NumSegments is not the number of Segment blocks of the Path does not
\* decode to a Layer.
C25_SegmentCount ==
  (LoadedTs /\ loaded.ok) =>
    \A i \in 1..Len(loaded.val.trajectories) :
      \A j \in 1..Len(loaded.val.trajectories[i].paths) :
        ToNumber(loaded.val.trajectories[i].paths[j].numSegments)
          = Int2Num(Len(loaded.val.trajectories[i].paths[j].segments))

\* what the code does: numSegments is the text of NumSegments, and the
\* segments are those of the Segment blocks, whatever NumSegments says
C25_DeclaredCountKept ==
  (LoadedTs /\ loaded.ok) =>
    \A i \in 1..Len(loaded.val.trajectories) :
      \A j \in 1..Len(loaded.val.trajectories[i].paths) :
        /\ loaded.val.trajectories[i].paths[j].numSegments
             = Str(Declared(getElementsByTagName(
                   getElementsByTagName(xmlDoc, "Trajectory")[i], "Path")[j],
                 "NumSegments"))
        /\ Len(loaded.val.trajectories[i].paths[j].segments)
             = Len(getElementsByTagName(getElementsByTagName(
                   getElementsByTagName(xmlDoc, "Trajectory")[i], "Path")[j],
                 "Segment"))

\* C25: a document whose Path declares 3 segments and holds 2 Segment blocks
\* was decoded to a Layer whose Path has numSegments 3 and 2 segments
C25_MiscountDecoded ==
  /\ LoadedTs
  /\ op = "LoadXML"
  /\ loaded.ok
  /\ Declared(xmlDoc, "NumSegments") = <<"3">>
  /\ Len(getElementsByTagName(xmlDoc, "Segment")) = 2
  /\ Len(loaded.val.trajectories) = 1
  /\ Len(loaded.val.trajectories[1].paths) = 1
  /\ loaded.val.trajectories[1].paths[1].numSegments = Str(<<"3">>)
  /\ Len(loaded.val.trajectories[1].paths[1].segments) = 2


(***************************************************************************)
(* C26: the IDs the styles and the segments refer to.                      *)
(***************************************************************************)
\* some element of the sequence objects has the ID id
HasID(objects, id) == \E k \in 1..Len(objects) : objects[k].ID = id

\* C26: in every Layer LoadXML of src/src/index.ts returns, the
\* velocityProfileID of every segment style is the ID of a velocity profile
\* of the Layer, and the segStyle of every segment is the ID of a segment
\* style of the Layer.
C26_ReferentialIntegrity ==
  (LoadedTs /\ loaded.ok) =>
    /\ \A i \in 1..Len(loaded.val.segmentStyles) :
         HasID(loaded.val.velocityProfiles,
               loaded.val.segmentStyles[i].velocityProfileID)
    /\ \A i \in 1..Len(loaded.val.trajectories) :
         \A j \in 1..Len(loaded.val.trajectories[i].paths) :
           \A k \in 1..Len(loaded.val.trajectories[i].paths[j].segments) :
             HasID(loaded.val.segmentStyles,
                   loaded.val.trajectories[i].paths[j].segments[k].segStyle)

\* C26: a document whose segment style names a velocity profile that is not
\* in the document was decoded
C26_UnknownProfileDecoded ==
  /\ LoadedTs
  /\ op = "LoadXML"
  /\ loaded.ok
  /\ Len(loaded.val.velocityProfiles) = 1
  /\ \E i \in 1..Len(loaded.val.segmentStyles) :
       /\ loaded.val.segmentStyles[i].velocityProfileID
            = Str(<<"a", "b", "c">>)
       /\ ~HasID(loaded.val.velocityProfiles,
                 loaded.val.segmentStyles[i].velocityProfileID)

\* a document whose segment names a segment style that is not in the
\* document was decoded
C26_UnknownStyleDecoded ==
  /\ LoadedTs
  /\ op = "LoadXML"
  /\ loaded.ok
  /\ \E i \in 1..Len(loaded.val.trajectories) :
       \E j \in 1..Len(loaded.val.trajectories[i].paths) :
         \E k \in 1..Len(loaded.val.trajectories[i].paths[j].segments) :
           ~HasID(loaded.val.segmentStyles,
                  loaded.val.trajectories[i].paths[j].segments[k].segStyle)


(***************************************************************************)
(* C27: the tags ExportXML writes for the optional fields.                 *)
(***************************************************************************)
\* node has a child element of tag exactly when value is there, and then
\* the text of that child is the text of value
EmittedIfPresent(node, tag, value) ==
  /\ (\E k \in 1..Len(node.kids) : node.kids[k].tag = tag)
       <=> NotNullish(value)
  /\ NotNullish(value) =>
       \E k \in 1..Len(node.kids) :
         /\ node.kids[k].tag = tag
         /\ node.kids[k].text = TemplateString(value)

\* the Traveler block travelerXML holds the optional fields of traveler
\* that are there, and its Wobble block when it has a wobble
TravelerOptionals(travelerXML, traveler) ==
  /\ EmittedIfPresent(travelerXML, "SyncDelay", traveler.syncDelay)
  /\ EmittedIfPresent(travelerXML, "Power", traveler.power)
  /\ EmittedIfPresent(travelerXML, "SpotSize", traveler.spotSize)
  /\ (\E k \in 1..Len(travelerXML.kids) : travelerXML.kids[k].tag = "Wobble")
       <=> HasWobble(traveler)

\* C27: for every optional field of the header, of a style, of a traveler
\* and of a segment, the text ExportXML of src/src/index.ts returns holds the
\* tag of the field exactly when the value is in the Layer, with the text of
\* the value; a value of numeric zero is written, not dropped.
C27_ConditionalEmission ==
  (op = "ExportXML" /\ impl = "ts" /\ exported.ok) =>
    /\ \A f \in { <<"layerNum", "LayerNum">>,
                   <<"absoluteHeight", "AbsoluteHeight">>,
                   <<"dosingFactor", "DosingFactor">>,
                   <<"buildDescription", "BuildDescription">> } :
         EmittedIfPresent(First(getElementsByTagName(exported.val, "Header")),
                          f[2], layer.header[f[1]])
    /\ Len(getElementsByTagName(exported.val, "SegmentStyle"))
         = Len(layer.segmentStyles)
    /\ \A i \in 1..Len(layer.segmentStyles) :
         /\ EmittedIfPresent(
              getElementsByTagName(exported.val, "SegmentStyle")[i],
              "LaserMode", layer.segmentStyles[i].laserMode)
         /\ Len(getElementsByTagName(
                  getElementsByTagName(exported.val, "SegmentStyle")[i],
                  "Traveler"))
              = Len(layer.segmentStyles[i].travelers)
         /\ \A j \in 1..Len(layer.segmentStyles[i].travelers) :
              TravelerOptionals(
                getElementsByTagName(
                  getElementsByTagName(exported.val, "SegmentStyle")[i],
                  "Traveler")[j],
                layer.segmentStyles[i].travelers[j])
    /\ \A i \in 1..Len(layer.trajectories) :
         \A j \in 1..Len(layer.trajectories[i].paths) :
           /\ Len(getElementsByTagName(getElementsByTagName(
                 getElementsByTagName(exported.val, "Trajectory")[i],
                 "Path")[j], "Segment"))
                = Len(layer.trajectories[i].paths[j].segments)
           /\ \A k \in 1..Len(layer.trajectories[i].paths[j].segments) :
                EmittedIfPresent(
                  getElementsByTagName(getElementsByTagName(
                    getElementsByTagName(exported.val, "Trajectory")[i],
                    "Path")[j], "Segment")[k],
                  "SegmentID",
                  layer.trajectories[i].paths[j].segments[k].segmentID)

\* C27: a Layer was exported whose layer number, sync delay and power are
\* zero, whose description and first segment ID are there, and whose dosing
\* factor, spot size and second segment ID are not
C27_ZeroAndAbsentExported ==
  /\ op = "ExportXML"
  /\ impl = "ts"
  /\ exported.ok
  /\ layer.header.layerNum = Int2Num(0)
  /\ layer.header.dosingFactor = Undefined
  /\ NotNullish(layer.header.buildDescription)
  /\ Len(layer.segmentStyles) = 2
  /\ Len(layer.segmentStyles[2].travelers) = 1
  /\ layer.segmentStyles[2].travelers[1].syncDelay = Int2Num(0)
  /\ layer.segmentStyles[2].travelers[1].power = Int2Num(0)
  /\ layer.segmentStyles[2].travelers[1].spotSize = Undefined
  /\ HasWobble(layer.segmentStyles[2].travelers[1])
  /\ Len(layer.trajectories) = 1
  /\ Len(layer.trajectories[1].paths) = 1
  /\ Len(layer.trajectories[1].paths[1].segments) = 2
  /\ NotNullish(layer.trajectories[1].paths[1].segments[1].segmentID)
  /\ layer.trajectories[1].paths[1].segments[2].segmentID = Undefined
  /\ Declared(exported.val, "LayerNum") = <<"0">>
  /\ Declared(exported.val, "Power") = <<"0">>


C28_SkyWritingModeFourRefused ==
  /\ LoadedTs
  /\ Declared(xmlDoc, "SkyWritingMode") = <<"4">>
  /\ ~loaded.ok
  /\ loaded.err.field = "SkyWritingMode"

\* the valid document with the PathProcessingMode "Sequential" was refused
C28_CapitalSequentialRefused ==
  /\ LoadedTs
  /\ Declared(xmlDoc, "PathProcessingMode")
       = <<"S", "e", "q", "u", "e", "n", "t", "i", "a", "l">>
  /\ ~loaded.ok
  /\ loaded.err.field = "PathProcessingMode"

\* the valid document with the Type "contour" was decoded
C28_ContourDecoded ==
  /\ LoadedTs
  /\ loaded.ok
  /\ Declared(xmlDoc, "Type") = <<"c", "o", "n", "t", "o", "u", "r">>


(***************************************************************************)
(* C29: the element the ID of a SegmentStyle is read from.                 *)
(***************************************************************************)
\* the ID of a decoded segment style: ID in src/src/index.ts, id in
\* src/alsam-xml.js
StyleID(style) == IF "ID" \in DOMAIN style THEN style.ID ELSE style.id

\* the texts of the ID elements that are children of node
OwnIDs(node) ==
  {node.kids[k].text : k \in {n \in 1..Len(node.kids) : node.kids[n].tag = "ID"}}

\* C29: the ID of every segment style LoadXML returns, in src/src/index.ts
\* and in src/alsam-xml.js, is the text of an ID element that is a child of
\* its SegmentStyle element, never the ID of a Traveler inside it: a
\* SegmentStyle with no ID child of its own does not decode.
C29_StyleIDIsOwn ==
  (Loaded /\ loaded.ok) =>
    \A i \in 1..Len(loaded.val.segmentStyles) :
      \E id \in OwnIDs(getElementsByTagName(xmlDoc, "SegmentStyle")[i]) :
        StyleID(loaded.val.segmentStyles[i]) = Str(id)

\* what the code does: the ID is the text of the first ID element inside the
\* SegmentStyle element, at any depth
C29_StyleIDIsFirstInside ==
  (Loaded /\ loaded.ok) =>
    \A i \in 1..Len(loaded.val.segmentStyles) :
      StyleID(loaded.val.segmentStyles[i])
        = Str(Declared(getElementsByTagName(xmlDoc, "SegmentStyle")[i], "ID"))

\* C29: src/src/index.ts decoded a SegmentStyle that has no ID child and a
\* Traveler of ID 1, and the ID of the segment style is 1
C29_TravelerIDTaken ==
  /\ LoadedTs
  /\ op = "LoadXML"
  /\ loaded.ok
  /\ Len(loaded.val.segmentStyles) = 2
  /\ OwnIDs(getElementsByTagName(xmlDoc, "SegmentStyle")[2]) = {}
  /\ Declared(First(getElementsByTagName(xmlDoc, "Traveler")), "ID") = <<"1">>
  /\ loaded.val.segmentStyles[2].ID = Str(<<"1">>)

\* src/alsam-xml.js did the same
C29_TravelerIDTakenJs ==
  /\ LoadedJs
  /\ loaded.ok
  /\ Len(loaded.val.segmentStyles) = 2
  /\ OwnIDs(getElementsByTagName(xmlDoc, "SegmentStyle")[2]) = {}
  /\ loaded.val.segmentStyles[2].id = Str(<<"1">>)

(***************************************************************************)
(* C30: the laser mode of a jump style.                                    *)
(***************************************************************************)
\* the SegmentStyle elements of node that hold no Traveler
JumpStyles(node) ==
  {i \in 1..Len(getElementsByTagName(node, "SegmentStyle")) :
     getElementsByTagName(getElementsByTagName(node, "SegmentStyle")[i],
                          "Traveler") = <<>>}

\* C30: for a SegmentStyle with zero Travelers the decoded laserMode is
\* absent whether or not the document carries a LaserMode tag for it, no
\* decoding is refused for the LaserMode of such a style, and the exported
\* text has no LaserMode tag for a style without Travelers.
C30_JumpStyleLaserMode ==
  /\ (Loaded /\ loaded.ok) =>
       \A i \in JumpStyles(xmlDoc) :
         ~NotNullish(loaded.val.segmentStyles[i].laserMode)
  /\ (Loaded /\ ~loaded.ok /\ loaded.err.stage = "getSegmentStyles"
        /\ loaded.err.field = "LaserMode") =>
       loaded.err.at[1] \notin JumpStyles(xmlDoc)
  /\ (op \in {"ExportXML", "Reload"} /\ exported.ok) =>
       \A i \in JumpStyles(exported.val) :
         getElementsByTagName(
           getElementsByTagName(exported.val, "SegmentStyle")[i],
           "LaserMode") = <<>>

\* the first SegmentStyle of the document has no Traveler and a LaserMode
\* tag whose text is no laser mode
JumpStyleWithMode ==
  /\ 1 \in JumpStyles(xmlDoc)
  /\ Declared(getElementsByTagName(xmlDoc, "SegmentStyle")[1], "LaserMode")
       = T.hatch

\* alsam-xml.js decoded such a document and exported the Layer: the style
\* holds null and the exported style has no LaserMode tag
C30_JumpStyleModeDroppedJs ==
  /\ op = "ExportXML" /\ impl = "js" /\ exported.ok
  /\ JumpStyleWithMode
  /\ layer.segmentStyles[1].laserMode = Null
  /\ getElementsByTagName(
       getElementsByTagName(exported.val, "SegmentStyle")[1],
       "LaserMode") = <<>>

\* index.ts decoded such a document: the style holds undefined
C30_JumpStyleModeIgnored ==
  /\ LoadedTs /\ op = "LoadXML" /\ loaded.ok
  /\ JumpStyleWithMode
  /\ loaded.val.segmentStyles[1].laserMode = Undefined
  /\ getElementsByTagName(
       First(ExportXML(loaded.val).val.kids), "LaserMode") # <<>>
  /\ \A i \in JumpStyles(ExportXML(loaded.val).val) :
       getElementsByTagName(
         getElementsByTagName(ExportXML(loaded.val).val, "SegmentStyle")[i],
         "LaserMode") = <<>>

\* index.ts decoded a document whose style lost its Traveler and kept its
\* LaserMode tag: the style holds undefined
C30_TravelerRemovedModeIgnored ==
  /\ LoadedTs /\ op = "LoadXML" /\ loaded.ok
  /\ 2 \in JumpStyles(xmlDoc)
  /\ Declared(getElementsByTagName(xmlDoc, "SegmentStyle")[2], "LaserMode")
       = T.Independent
  /\ loaded.val.segmentStyles[2].laserMode = Undefined

====
